---- MODULE Spec2Model ----
(***************************************************************************)
(* dynamo-tools: the value codec of Item.js (fromObject / toObject /       *)
(* isPOJO) and the request builders of the Cache class (_query, updateOne, *)
(* increment), with the part of the store's UpdateItem that the requests   *)
(* built here exercise.                                                    *)
(*                                                                         *)
(* JavaScript values are tagged records:                                   *)
(*   undefined  [t |-> "undef"]         null     [t |-> "null"]            *)
(*   string     [t |-> "str", s |-> sequence of one-character strings]     *)
(*   number     [t |-> "num", n |-> integer]     NaN  [t |-> "nan"]        *)
(*   boolean    [t |-> "bool", b |-> BOOLEAN]                              *)
(*   Buffer     [t |-> "buf", bytes |-> sequence of 0..255]                *)
(*   Array      [t |-> "arr", e |-> sequence of values]                    *)
(*   Set        [t |-> "set", m |-> members in insertion order]            *)
(*   object     [t |-> "obj", f |-> function from property names]          *)
(* and a thrown TypeError is [t |-> "error"].  Numbers are integers.       *)
(***************************************************************************)
EXTENDS Integers, Sequences, FiniteSets, TLC

\* Longest list (and widest map) wrapped around a value when inputs are built.
MaxLen == 2
\* Deepest nesting of lists and maps around an atom when inputs are built.
MaxDepth == 2

\* Most fields of a match, update or filter map handed to a builder.
MaxFields == 2
\* Most update requests sent to the store in one run.
MaxCalls == 2

VARIABLES
  native,    \* codec: the argument handed to fromObject
  wire,      \* codec: what fromObject returned
  decoded,   \* codec: what toObject returned for wire
  again,     \* codec: what toObject returned for decoded
  cpc,       \* codec: "start" -> "encoded" -> "decoded" -> "decoded again"
  call,      \* builder: the arguments of the last Cache method called
  params,    \* builder: the request it built, NoRequest when it threw first
  stored,    \* store: the item under the key, Undef when there is none
  before,    \* store: the item as it was when the last request arrived
  result,    \* what the last call returned, or the error it threw
  ncalls,    \* number of calls made so far
  procs,     \* calls running side by side: where each one is, what it holds
  table,     \* store: the items of the table, by key number
  loop,      \* paged read: the local variables of the call that is running
  pages      \* paged read: the requests of the call and the pages answered

vars == <<native, wire, decoded, again, cpc, call, params, stored, before, result,
          ncalls, procs, table, loop, pages>>
codecVars == <<native, wire, decoded, again, cpc>>
cacheVars == <<call, params, stored, before, result, ncalls>>
tableVars == <<procs, table>>
pageVars == <<loop, pages>>

----------------------------------------------------------------------------
\* JavaScript values

Undef == [t |-> "undef"]
Null == [t |-> "null"]
NaN == [t |-> "nan"]
Err == [t |-> "error"]
Str(s) == [t |-> "str", s |-> s]
Num(n) == [t |-> "num", n |-> n]
Bool(b) == [t |-> "bool", b |-> b]
Buf(bytes) == [t |-> "buf", bytes |-> bytes]
Arr(e) == [t |-> "arr", e |-> e]
SetOf(m) == [t |-> "set", m |-> m]
Obj(f) == [t |-> "obj", f |-> f]

EmptyObj == Obj([k \in {} |-> Undef])
Obj1(k, v) == Obj([x \in {k} |-> v])

Range(s) == {s[i] : i \in 1..Len(s)}

\* obj.hasOwnProperty(k) / obj[k] on a value that is not null or undefined
Has(v, k) == v.t = "obj" /\ k \in DOMAIN v.f
Get(v, k) == IF Has(v, k) THEN v.f[k] ELSE Undef

\* JavaScript truthiness, as used by `if (dynamoItem.B)` and friends
Truthy(v) ==
  CASE v.t \in {"undef", "null", "nan"} -> FALSE
    [] v.t = "bool" -> v.b
    [] v.t = "num" -> v.n # 0
    [] v.t = "str" -> Len(v.s) > 0
    [] OTHER -> TRUE

----------------------------------------------------------------------------
\* Text of numbers

DigitChars == <<"0", "1", "2", "3", "4", "5", "6", "7", "8", "9">>

IsDigit(c) == \E d \in 1..10 : DigitChars[d] = c
DigitVal(c) == (CHOOSE d \in 1..10 : DigitChars[d] = c) - 1

\* /^\d+$/.test(s)
DigitsOnly(s) == Len(s) > 0 /\ \A i \in 1..Len(s) : IsDigit(s[i])

RECURSIVE NatToDecimal(_)
NatToDecimal(n) ==
  IF n < 10 THEN <<DigitChars[n + 1]>>
  ELSE Append(NatToDecimal(n \div 10), DigitChars[(n % 10) + 1])

\* Number.prototype.toString() for an integer
NumberToString(n) ==
  IF n < 0 THEN <<"-">> \o NatToDecimal(0 - n) ELSE NatToDecimal(n)

RECURSIVE DecimalToNat(_)
DecimalToNat(s) ==
  IF Len(s) = 0 THEN 0
  ELSE 10 * DecimalToNat(SubSeq(s, 1, Len(s) - 1)) + DigitVal(s[Len(s)])

\* Number(text): "" is 0, an integer literal is its value, other text is NaN
StringToNumber(s) ==
  IF Len(s) = 0 THEN Num(0)
  ELSE IF DigitsOnly(s) THEN Num(DecimalToNat(s))
  ELSE IF s[1] = "-" /\ DigitsOnly(Tail(s)) THEN Num(0 - DecimalToNat(Tail(s)))
  ELSE NaN

----------------------------------------------------------------------------
\* base64

B64Chars ==
  <<"A", "B", "C", "D", "E", "F", "G", "H", "I", "J", "K", "L", "M",
    "N", "O", "P", "Q", "R", "S", "T", "U", "V", "W", "X", "Y", "Z",
    "a", "b", "c", "d", "e", "f", "g", "h", "i", "j", "k", "l", "m",
    "n", "o", "p", "q", "r", "s", "t", "u", "v", "w", "x", "y", "z",
    "0", "1", "2", "3", "4", "5", "6", "7", "8", "9", "+", "/">>

B64Val(c) == (CHOOSE i \in 1..64 : B64Chars[i] = c) - 1
IsB64(c) == \E i \in 1..64 : B64Chars[i] = c

\* buff.toString("base64")
RECURSIVE Base64Encode(_)
Base64Encode(bytes) ==
  IF Len(bytes) = 0 THEN <<>>
  ELSE IF Len(bytes) = 1 THEN
    <<B64Chars[(bytes[1] \div 4) + 1],
      B64Chars[((bytes[1] % 4) * 16) + 1], "=", "=">>
  ELSE IF Len(bytes) = 2 THEN
    <<B64Chars[(bytes[1] \div 4) + 1],
      B64Chars[((bytes[1] % 4) * 16) + (bytes[2] \div 16) + 1],
      B64Chars[((bytes[2] % 16) * 4) + 1], "=">>
  ELSE
    <<B64Chars[(bytes[1] \div 4) + 1],
      B64Chars[((bytes[1] % 4) * 16) + (bytes[2] \div 16) + 1],
      B64Chars[((bytes[2] % 16) * 4) + (bytes[3] \div 64) + 1],
      B64Chars[(bytes[3] % 64) + 1]>>
    \o Base64Encode(SubSeq(bytes, 4, Len(bytes)))

\* Buffer.from(text, "base64"): decoding stops at the first character that
\* is not in the alphabet (the padding); leftover bits are dropped
RECURSIVE Base64Decode(_)
Base64Decode(s) ==
  IF Len(s) < 2 \/ ~IsB64(s[1]) \/ ~IsB64(s[2]) THEN <<>>
  ELSE
    LET a == B64Val(s[1])
        b == B64Val(s[2])
        b1 == (a * 4) + (b \div 16)
    IN IF Len(s) < 3 \/ ~IsB64(s[3]) THEN <<b1>>
       ELSE
         LET c == B64Val(s[3])
             b2 == ((b % 16) * 16) + (c \div 4)
         IN IF Len(s) < 4 \/ ~IsB64(s[4]) THEN <<b1, b2>>
            ELSE <<b1, b2, ((c % 4) * 64) + B64Val(s[4])>>
                 \o Base64Decode(SubSeq(s, 5, Len(s)))

----------------------------------------------------------------------------
\* Conversions the codec applies to payloads

ObjectObjectText ==
  <<"[", "o", "b", "j", "e", "c", "t", " ", "O", "b", "j", "e", "c", "t", "]">>
ObjectSetText ==
  <<"[", "o", "b", "j", "e", "c", "t", " ", "S", "e", "t", "]">>

\* one character per byte: ASCII letters as themselves, NUL, and the
\* replacement character for a byte that is not valid UTF-8
ByteChar(b) ==
  IF b = 97 THEN "a" ELSE IF b = 98 THEN "b" ELSE IF b = 0 THEN "\\0"
  ELSE "\\uFFFD"

RECURSIVE JoinComma(_)
JoinComma(texts) ==
  IF Len(texts) = 0 THEN <<>>
  ELSE IF Len(texts) = 1 THEN texts[1]
  ELSE texts[1] \o <<",">> \o JoinComma(Tail(texts))

\* String(v) ; null and undefined give "null" / "undefined"
RECURSIVE StringOf(_)
StringOf(v) ==
  CASE v.t = "str" -> v.s
    [] v.t = "num" -> NumberToString(v.n)
    [] v.t = "nan" -> <<"N", "a", "N">>
    [] v.t = "bool" ->
         IF v.b THEN <<"t", "r", "u", "e">> ELSE <<"f", "a", "l", "s", "e">>
    [] v.t = "null" -> <<"n", "u", "l", "l">>
    [] v.t = "undef" -> <<"u", "n", "d", "e", "f", "i", "n", "e", "d">>
    [] v.t = "buf" -> [i \in 1..Len(v.bytes) |-> ByteChar(v.bytes[i])]
    [] v.t = "arr" ->
         JoinComma([i \in 1..Len(v.e) |->
                      IF v.e[i].t \in {"null", "undef"} THEN <<>>
                      ELSE StringOf(v.e[i])])
    [] v.t = "set" -> ObjectSetText
    [] OTHER -> ObjectObjectText

\* v.toString(): a TypeError on null and undefined
ToStringMethod(v) ==
  IF v.t \in {"null", "undef", "error"} THEN Err ELSE Str(StringOf(v))

\* Number(v)
NumberOf(v) ==
  CASE v.t = "num" -> v
    [] v.t = "nan" -> NaN
    [] v.t = "str" -> StringToNumber(v.s)
    [] v.t = "bool" -> IF v.b THEN Num(1) ELSE Num(0)
    [] v.t = "null" -> Num(0)
    [] v.t = "undef" -> NaN
    [] v.t = "arr" -> StringToNumber(StringOf(v))
    [] v.t = "buf" -> StringToNumber(StringOf(v))
    [] OTHER -> NaN

\* v.toString("base64"): base64 text of a Buffer; a string ignores the
\* argument; a number takes it for a radix and throws a RangeError
ToBase64Method(v) ==
  CASE v.t = "buf" -> Str(Base64Encode(v.bytes))
    [] v.t = "str" -> v
    [] v.t \in {"num", "nan", "null", "undef"} -> Err
    [] OTHER -> Str(StringOf(v))

\* Buffer.from(v, "base64"): text is decoded, a Buffer is copied, and
\* a value that is none of string, Buffer, array or object with valueOf
\* is a TypeError
BufferFromBase64(v) ==
  CASE v.t = "str" -> Buf(Base64Decode(v.s))
    [] v.t = "buf" -> v
    [] OTHER -> Err

\* new Set(list): members in first-insertion order, duplicates dropped
RECURSIVE Dedup(_)
Dedup(s) ==
  IF Len(s) = 0 THEN <<>>
  ELSE LET d == Dedup(SubSeq(s, 1, Len(s) - 1))
       IN IF s[Len(s)] \in Range(d) THEN d ELSE Append(d, s[Len(s)])

\* Object.keys(v) with the values under them.  Arrays, strings and Buffers
\* have their indices as keys; other primitives and Sets have none.
IndexKey(i) == StringOf(Num(i - 1))[1]
Entries(v) ==
  CASE v.t = "obj" -> v.f
    [] v.t = "arr" ->
         [k \in {IndexKey(i) : i \in 1..Len(v.e)} |->
            v.e[CHOOSE i \in 1..Len(v.e) : IndexKey(i) = k]]
    [] v.t = "str" ->
         [k \in {IndexKey(i) : i \in 1..Len(v.s)} |->
            Str(<<v.s[CHOOSE i \in 1..Len(v.s) : IndexKey(i) = k]>>)]
    [] v.t = "buf" ->
         [k \in {IndexKey(i) : i \in 1..Len(v.bytes)} |->
            Num(v.bytes[CHOOSE i \in 1..Len(v.bytes) : IndexKey(i) = k])]
    [] OTHER -> [k \in {} |-> Undef]

----------------------------------------------------------------------------
\* Item.js

isPOJO(obj) == obj.t = "obj"

\* an exception anywhere inside aborts the whole call
Thrown(vs) == \E v \in vs : v.t = "error"

RECURSIVE fromObject(_)

\* a string that is not all digits
StringValue(obj) == Obj1("S", obj)

\* NumberText with the digits of a string rewritten as the number prints
NumberTextCanonical(obj) ==
  IF NumberOf(obj).t = "num"
  THEN Obj1("N", Str(NumberToString(NumberOf(obj).n)))
  ELSE Obj1("N", ToStringMethod(obj))

\* a number, or a string of digits
NumberText(obj) == Obj1("N", ToStringMethod(obj))

\* a list: every element wrapped in M when the first one is a plain object,
\* no element wrapped otherwise
ListValue(e) ==
  IF Len(e) > 0 /\ isPOJO(e[1]) THEN
    Obj1("L", Arr([i \in 1..Len(e) |-> Obj1("M", fromObject(e[i]))]))
  ELSE
    Obj1("L", Arr([i \in 1..Len(e) |-> fromObject(e[i])]))

\* SetValue with every Set sent as a string set
SetValueStrings(m) ==
  IF Len(m) = 0 THEN Undef
  ELSE Obj1("SS", Arr([i \in 1..Len(m) |-> Str(StringOf(m[i]))]))

\* a Set, by the kind of its first member; Undef when no branch takes it
SetValue(m) ==
  IF Len(m) = 0 THEN Undef
  ELSE IF m[1].t = "str" THEN Obj1("SS", Arr(m))
  ELSE IF m[1].t \in {"num", "nan"} THEN Obj1("NS", Arr(m))
  ELSE IF m[1].t = "buf" THEN
    LET texts == [i \in 1..Len(m) |-> ToBase64Method(m[i])]
    IN IF Thrown(Range(texts)) THEN Err ELSE Obj1("BS", Arr(texts))
  ELSE Undef

\* FieldValue without the M wrapper
FieldValueBare(v) == fromObject(v)

\* one field of an object
FieldValue(v) ==
  IF isPOJO(v) THEN Obj1("M", fromObject(v)) ELSE fromObject(v)

\* an object: its fields, without those that encode to undefined
FieldTable(src) ==
  Obj([k \in {x \in DOMAIN src : FieldValue(src[x]).t # "undef"} |->
         FieldValue(src[k])])

fromObject(obj) ==
  IF obj.t = "undef" THEN Undef
  ELSE IF obj.t = "str" /\ ~DigitsOnly(obj.s) THEN StringValue(obj)
  ELSE IF obj.t \in {"num", "nan"}
          \/ (obj.t = "str" /\ NumberOf(obj).t = "num") THEN NumberText(obj)
  ELSE IF obj.t = "buf" THEN Obj1("B", ToBase64Method(obj))
  ELSE IF obj.t = "bool" THEN Obj1("BOOL", obj)
  ELSE IF obj.t = "null" THEN Obj1("NULL", Bool(TRUE))
  ELSE IF obj.t = "arr" THEN ListValue(obj.e)
  ELSE IF obj.t = "set" /\ SetValue(obj.m).t # "undef" THEN SetValue(obj.m)
  ELSE IF obj.t \in {"obj", "set"} THEN FieldTable(Entries(obj))
  ELSE Undef

RECURSIVE toObject(_)
toObject(dynamoItem) ==
  LET each(entries) ==
        LET out == [k \in DOMAIN entries |-> toObject(entries[k])]
        IN IF Thrown({out[k] : k \in DOMAIN out}) THEN Err ELSE Obj(out)
      mapped(list, f(_)) ==
        IF list.t # "arr" THEN Err
        ELSE LET out == [i \in 1..Len(list.e) |-> f(list.e[i])]
             IN IF Thrown(Range(out)) THEN Err ELSE Arr(out)
      str(v) == Str(StringOf(v))
      asSet(list) == IF list.t = "error" THEN Err ELSE SetOf(Dedup(list.e))
  IN
  IF dynamoItem.t = "undef" THEN Undef
  ELSE IF dynamoItem.t \in {"str", "num", "nan", "bool"} THEN dynamoItem
  ELSE IF dynamoItem.t = "null" THEN Err
  ELSE IF Get(dynamoItem, "S").t # "undef" THEN
    ToStringMethod(Get(dynamoItem, "S"))
  ELSE IF Get(dynamoItem, "N").t # "undef" THEN NumberOf(Get(dynamoItem, "N"))
  ELSE IF Truthy(Get(dynamoItem, "B")) THEN
    BufferFromBase64(Get(dynamoItem, "B"))
  ELSE IF Has(dynamoItem, "BOOL") THEN Get(dynamoItem, "BOOL")
  ELSE IF Truthy(Get(dynamoItem, "NULL")) THEN Null
  ELSE IF Truthy(Get(dynamoItem, "M")) THEN each(Entries(Get(dynamoItem, "M")))
  ELSE IF Truthy(Get(dynamoItem, "L")) THEN mapped(Get(dynamoItem, "L"), toObject)
  ELSE IF Truthy(Get(dynamoItem, "SS")) THEN
    asSet(mapped(Get(dynamoItem, "SS"), str))
  ELSE IF Truthy(Get(dynamoItem, "NS")) THEN
    asSet(mapped(Get(dynamoItem, "NS"), NumberOf))
  ELSE IF Truthy(Get(dynamoItem, "BS")) THEN
    LET bufs == mapped(Get(dynamoItem, "BS"), BufferFromBase64)
    IN IF bufs.t = "error" THEN Err ELSE SetOf(bufs.e)
  ELSE IF dynamoItem.t = "arr" THEN mapped(dynamoItem, toObject)
  ELSE each(Entries(dynamoItem))

\* deep equality of two values; Sets are compared by membership
RECURSIVE DeepEqual(_, _)
DeepEqual(a, b) ==
  IF a.t # b.t THEN FALSE
  ELSE IF a.t = "set" THEN Range(a.m) = Range(b.m)
  ELSE IF a.t = "arr" THEN
    Len(a.e) = Len(b.e) /\ \A i \in 1..Len(a.e) : DeepEqual(a.e[i], b.e[i])
  ELSE IF a.t = "obj" THEN
    DOMAIN a.f = DOMAIN b.f /\ \A k \in DOMAIN a.f : DeepEqual(a.f[k], b.f[k])
  ELSE a = b

\* What the calls leave behind in their argument.  The only property writes
\* of Item.js are `item[key] = ...` and `delete item[key]` in fromObject and
\* `obj[key] = ...` in toObject; each turn of a forEach is kept as a step
\* over the pair (the object read, the object written).

Without(f, k) == [x \in DOMAIN f \ {k} |-> f[x]]
With(f, k, v) == [x \in DOMAIN f \cup {k} |-> IF x = k THEN v ELSE f[x]]
NoFields == [k \in {} |-> Undef]

RECURSIVE AfterFromObject(_)

\* FieldTurn with the delete aimed at the object that is read
FieldTurnInPlace(st, key) ==
  LET v == FieldValue(st.obj[key])
      read == [st.obj EXCEPT ![key] = AfterFromObject(st.obj[key])]
  IN IF v.t = "undef"
     THEN [obj |-> Without(read, key), item |-> With(st.item, key, v)]
     ELSE [obj |-> read, item |-> With(st.item, key, v)]

\* one turn of the forEach of fromObject: item[key] is assigned, and deleted
\* again when it is undefined; obj[key] is only handed to the nested call
FieldTurn(st, key) ==
  LET v == FieldValue(st.obj[key])
      read == [st.obj EXCEPT ![key] = AfterFromObject(st.obj[key])]
  IN IF v.t = "undef"
     THEN [obj |-> read, item |-> Without(With(st.item, key, v), key)]
     ELSE [obj |-> read, item |-> With(st.item, key, v)]

RECURSIVE FieldTurns(_, _)
FieldTurns(st, keys) ==
  IF keys = {} THEN st
  ELSE LET k == CHOOSE x \in keys : TRUE
       IN FieldTurns(FieldTurn(st, k), keys \ {k})

\* the argument of fromObject as it is when the call has returned
AfterFromObject(obj) ==
  IF obj.t = "arr" THEN
    Arr([i \in 1..Len(obj.e) |-> AfterFromObject(obj.e[i])])
  ELSE IF obj.t = "obj" THEN
    Obj(FieldTurns([obj |-> obj.f, item |-> NoFields], DOMAIN obj.f).obj)
  ELSE obj

RECURSIVE AfterToObject(_)

\* one turn of the forEach of toObject: obj[key] is assigned
ObjectTurn(st, key) ==
  [arg |-> [st.arg EXCEPT ![key] = AfterToObject(st.arg[key])],
   obj |-> With(st.obj, key, toObject(st.arg[key]))]

RECURSIVE ObjectTurns(_, _)
ObjectTurns(st, keys) ==
  IF keys = {} THEN st
  ELSE LET k == CHOOSE x \in keys : TRUE
       IN ObjectTurns(ObjectTurn(st, k), keys \ {k})

\* the argument of toObject as it is when the call has returned
AfterToObject(dynamoItem) ==
  LET turned(m) ==
        Obj(ObjectTurns([arg |-> m.f, obj |-> NoFields], DOMAIN m.f).arg)
  IN
  IF dynamoItem.t = "arr" THEN
    Arr([i \in 1..Len(dynamoItem.e) |-> AfterToObject(dynamoItem.e[i])])
  ELSE IF dynamoItem.t # "obj" THEN dynamoItem
  ELSE IF \/ Get(dynamoItem, "S").t # "undef"
          \/ Get(dynamoItem, "N").t # "undef"
          \/ Truthy(Get(dynamoItem, "B"))
          \/ Has(dynamoItem, "BOOL")
          \/ Truthy(Get(dynamoItem, "NULL")) THEN dynamoItem
  ELSE IF Truthy(Get(dynamoItem, "M")) THEN
    IF dynamoItem.f["M"].t = "obj"
    THEN Obj([dynamoItem.f EXCEPT !["M"] = turned(@)])
    ELSE dynamoItem
  ELSE IF Truthy(Get(dynamoItem, "L")) THEN
    IF dynamoItem.f["L"].t = "arr"
    THEN Obj([dynamoItem.f EXCEPT !["L"] = AfterToObject(@)])
    ELSE dynamoItem
  ELSE IF \/ Truthy(Get(dynamoItem, "SS"))
          \/ Truthy(Get(dynamoItem, "NS"))
          \/ Truthy(Get(dynamoItem, "BS")) THEN dynamoItem
  ELSE turned(dynamoItem)

----------------------------------------------------------------------------
\* Cache: building requests
\*
\* An argument map whose key order matters (Object.keys order decides the
\* placeholder numbers) is an ordered object: [t |-> "oobj", e |-> entries],
\* entries a sequence of [k |-> name, v |-> value] with distinct names.
\* Expression text is kept as the sequence of its tokens; the text itself
\* is the tokens with the blanks and commas the template puts between them.

OObj(entries) == [t |-> "oobj", e |-> entries]
NoCall == [op |-> "none"]
NoRequest == [cmd |-> "none"]
NoResult == [threw |-> "none", value |-> Undef]
NoProcs == <<>>
NoItems == {}
NoLoop == [pc |-> "idle"]
NoPages == <<>>

\* what an async method hands its caller: the value, or the rejection
Returned(v) ==
  IF v.t = "error" THEN [threw |-> "TypeError", value |-> Undef]
  ELSE [threw |-> "none", value |-> v]
Rejected(why) == [threw |-> why, value |-> Undef]

\* Object.keys(o) and Object.keys(o)[0]
KeysOf(o) == [i \in 1..Len(o.e) |-> o.e[i].k]
FirstKey(o) == IF Len(o.e) = 0 THEN "undefined" ELSE o.e[1].k

\* the plain object an ordered object is, for fromObject
Plain(o) ==
  Obj([k \in {o.e[i].k : i \in 1..Len(o.e)} |->
         o.e[CHOOSE i \in 1..Len(o.e) : o.e[i].k = k].v])

\* `${prefix}${i}` with i the zero-based index
Placeholder(prefix, i) == prefix \o ToString(i - 1)

\* list.join(sep) for a list of token sequences
RECURSIVE Join(_, _)
Join(parts, sep) ==
  IF Len(parts) = 0 THEN <<>>
  ELSE IF Len(parts) = 1 THEN parts[1]
  ELSE parts[1] \o sep \o Join(Tail(parts), sep)

RECURSIVE Flat(_)
Flat(lists) == IF Len(lists) = 0 THEN <<>> ELSE lists[1] \o Flat(Tail(lists))

\* One assignment params.ExpressionAttributeNames[key] = val (tbl "names")
\* or params.ExpressionAttributeValues[key] = val (tbl "values"), tagged
\* with the clause of the request that makes it.
Assign(tbl, key, val, clause) ==
  [tbl |-> tbl, key |-> key, val |-> val, clause |-> clause]

\* the table the assignments leave behind: the last one made to a key wins
TableOf(assigns, tbl) ==
  LET idx == {i \in 1..Len(assigns) : assigns[i].tbl = tbl}
      last(k) == CHOOSE i \in idx :
                   /\ assigns[i].key = k
                   /\ \A j \in idx : assigns[j].key = k => j <= i
  IN [k \in {assigns[i].key : i \in idx} |-> assigns[last(k)].val]

\* { field: { comparison: value } } read the way the range and condition
\* clauses read it: first key, first comparison under it.  Object.keys of
\* undefined (no first key) is a TypeError.
FirstComparison(o) ==
  IF Len(o.e) = 0 THEN [threw |-> TRUE]
  ELSE LET inner == o.e[1].v
       IN [threw |-> FALSE,
           key |-> o.e[1].k,
           comparison |-> FirstKey(inner),
           value |-> IF Len(inner.e) = 0 THEN Undef ELSE inner.e[1].v]

\* the match clause of _query
MatchExpression(match) ==
  Join([i \in 1..Len(match.e) |->
          <<Placeholder("#S", i), "=", Placeholder(":val", i)>>], <<"AND">>)
\* MatchAssigns with the literal bound as it is, not encoded
MatchAssignsRaw(match) ==
  Flat([i \in 1..Len(match.e) |->
          <<Assign("names", Placeholder("#S", i), match.e[i].k, "match"),
            Assign("values", Placeholder(":val", i), match.e[i].v, "match")>>])

MatchAssigns(match) ==
  Flat([i \in 1..Len(match.e) |->
          <<Assign("names", Placeholder("#S", i), match.e[i].k, "match"),
            Assign("values", Placeholder(":val", i),
                   fromObject(match.e[i].v), "match")>>])

\* the range clause of _query
RangeExpression(c) == <<"AND", "#R", c.comparison, ":sortKeyVal">>
\* RangeAssigns with the value under the first placeholder of the match
RangeAssignsShared(c) ==
  <<Assign("names", "#R", c.key, "range"),
    Assign("values", ":val0", fromObject(c.value), "range")>>

RangeAssigns(c) ==
  <<Assign("names", "#R", c.key, "range"),
    Assign("values", ":sortKeyVal", fromObject(c.value), "range")>>

\* the filter clause of _query
FilterValuePlaceholder(i, j) == Placeholder(":fVal", j)
FilterExpression(filter) ==
  Join(Flat([i \in 1..Len(filter.e) |->
               [j \in 1..Len(filter.e[i].v.e) |->
                  <<Placeholder("#F", i), filter.e[i].v.e[j].k,
                    FilterValuePlaceholder(i, j)>>]]), <<"AND">>)
FilterAssigns(filter) ==
  Flat([i \in 1..Len(filter.e) |->
          <<Assign("names", Placeholder("#F", i), filter.e[i].k, "filter")>>
          \o [j \in 1..Len(filter.e[i].v.e) |->
                Assign("values", FilterValuePlaceholder(i, j),
                       fromObject(filter.e[i].v.e[j].v), "filter")]])

\* the assignments _query makes, in order
QueryAssigns(match, range, filter) ==
  (IF match.t = "oobj" THEN MatchAssigns(match) ELSE <<>>)
  \o (IF range.t = "oobj" THEN RangeAssigns(FirstComparison(range)) ELSE <<>>)
  \o (IF filter.t = "oobj" THEN FilterAssigns(filter) ELSE <<>>)

\* Cache._query up to the send: the QueryCommand input, or the throw
_query(match, range, filter, indexName, start) ==
  IF match.t = "oobj" /\ Len(match.e) > 1 THEN
    [cmd |-> "none", threw |-> "Error: Match must have exactly one key"]
  ELSE IF range.t = "oobj" /\ FirstComparison(range).threw THEN
    [cmd |-> "none", threw |-> "TypeError"]
  ELSE
    LET assigns == QueryAssigns(match, range, filter)
    IN [cmd |-> "Query",
        ExclusiveStartKey |-> start,
        IndexName |-> IF match.t # "oobj" THEN "undefined"
                      ELSE IF indexName # "undefined" THEN indexName
                      ELSE FirstKey(match),
        KeyConditionExpression |->
          (IF match.t = "oobj" THEN MatchExpression(match) ELSE <<>>)
          \o (IF range.t = "oobj"
              THEN RangeExpression(FirstComparison(range)) ELSE <<>>),
        FilterExpression |->
          IF filter.t = "oobj" THEN FilterExpression(filter) ELSE <<>>,
        hasFilter |-> filter.t = "oobj",
        assigns |-> assigns,
        ExpressionAttributeNames |-> TableOf(assigns, "names"),
        ExpressionAttributeValues |-> TableOf(assigns, "values")]

\* the condition clause of updateOne
ConditionExpression(c) == <<"#C", c.comparison, ":conVal">>
ConditionAssigns(c) ==
  <<Assign("names", "#C", c.key, "condition"),
    Assign("values", ":conVal", fromObject(c.value), "condition")>>

\* the update clause of updateOne
SetExpression(update) ==
  <<"SET">>
  \o Join([i \in 1..Len(update.e) |->
             <<Placeholder("#K", i), "=", Placeholder(":val", i)>>], <<",">>)
UpdateAssigns(update) ==
  Flat([i \in 1..Len(update.e) |->
          <<Assign("names", Placeholder("#K", i), update.e[i].k, "update"),
            Assign("values", Placeholder(":val", i),
                   fromObject(update.e[i].v), "update")>>])

\* Cache.updateOne up to the send: the UpdateItemCommand input, or the throw
updateOne(match, update, returnValues, condition) ==
  IF condition.t = "oobj" /\ FirstComparison(condition).threw THEN
    [cmd |-> "none", threw |-> "TypeError"]
  ELSE
    LET assigns ==
          UpdateAssigns(update)
          \o (IF condition.t = "oobj"
              THEN ConditionAssigns(FirstComparison(condition)) ELSE <<>>)
    IN [cmd |-> "UpdateItem",
        Key |-> fromObject(Plain(match)),
        UpdateExpression |-> SetExpression(update),
        ConditionExpression |->
          IF condition.t = "oobj"
          THEN ConditionExpression(FirstComparison(condition)) ELSE <<>>,
        ReturnValues |-> returnValues,
        assigns |-> assigns,
        ExpressionAttributeNames |-> TableOf(assigns, "names"),
        ExpressionAttributeValues |-> TableOf(assigns, "values")]

\* AddExpression with every field assigned its delta
AddExpressionOverwrite(update) ==
  <<"SET">>
  \o Join([i \in 1..Len(update.e) |->
             <<Placeholder("#K", i), "=", Placeholder(":val", i)>>], <<",">>)

\* the update clause of increment
AddExpression(update) ==
  <<"ADD">>
  \o Join([i \in 1..Len(update.e) |->
             <<Placeholder("#K", i), Placeholder(":val", i)>>], <<",">>)

\* Cache.increment up to the send
increment(match, update, returnValues) ==
  LET assigns == UpdateAssigns(update)
  IN [cmd |-> "UpdateItem",
      Key |-> fromObject(Plain(match)),
      UpdateExpression |-> AddExpression(update),
      ConditionExpression |-> <<>>,
      ReturnValues |-> returnValues,
      assigns |-> assigns,
      ExpressionAttributeNames |-> TableOf(assigns, "names"),
      ExpressionAttributeValues |-> TableOf(assigns, "values")]

\* Cache.deleteOne up to the send: it takes table and match, and nothing
\* else of what it is called with reaches the request
deleteOne(match, condition) ==
  [cmd |-> "DeleteItem", Key |-> fromObject(Plain(match)), assigns |-> <<>>]

\* Cache._chunk
RECURSIVE _chunk(_, _)
_chunk(array, chunkSize) ==
  IF chunkSize = 0 \/ Len(array) = 0 THEN <<>>
  ELSE IF Len(array) <= chunkSize THEN <<array>>
  ELSE <<SubSeq(array, 1, chunkSize)>>
       \o _chunk(SubSeq(array, chunkSize + 1, Len(array)), chunkSize)

\* the chunk size putMany and deleteAll ask for
BatchSize == 25

\* the table every call names
TableName == "table"

\* one BatchWriteItemCommand input: RequestItems[table], every request
\* {kind: {slot: fromObject(item)}}
BatchWrite(batch, kind, slot) ==
  [cmd |-> "BatchWriteItem",
   RequestItems |->
     [j \in 1..Len(batch) |-> Obj1(kind, Obj1(slot, fromObject(batch[j])))]]

\* putMany with all the items in one command
putManyOne(items) == <<BatchWrite(items, "PutRequest", "Item")>>

\* Cache.putMany up to the sends: one command per chunk
putMany(items) ==
  [b \in 1..Len(_chunk(items, BatchSize)) |->
     BatchWrite(_chunk(items, BatchSize)[b], "PutRequest", "Item")]

\* Cache.deleteAll from the scanned items up to the sends
deleteAll(items) ==
  [b \in 1..Len(_chunk(items, BatchSize)) |->
     BatchWrite(_chunk(items, BatchSize)[b], "DeleteRequest", "Key")]

\* Cache.getMany up to the send
getMany(matches) ==
  [cmd |-> "BatchGetItem",
   Keys |-> [i \in 1..Len(matches) |-> fromObject(matches[i])]]

\* Cache._scan up to the send
_scan(keysToReturn, start) ==
  [cmd |-> "Scan",
   ExclusiveStartKey |-> start,
   keysToReturn |-> keysToReturn,
   ProjectionExpression |->
     Join([i \in 1..Len(keysToReturn) |-> <<Placeholder("#K", i)>>], <<",">>),
   assigns |-> [i \in 1..Len(keysToReturn) |->
                  Assign("names", Placeholder("#K", i), keysToReturn[i],
                         "projection")]]

\* the limit _query takes when it is given none
DefaultLimit == 100

\* the request of one turn of the loop of Cache.query: start is `last`
query(match, last) == _query(match, Undef, Undef, "undefined", last)

\* the request of one turn of the loop of Cache.getAll: start is `last`
getAll(keysToReturn, last) == _scan(keysToReturn, last)

\* queryPage with the start key decoded before it is sent
queryPageDecoded(match, lastKey) ==
  _query(match, Undef, Undef, "undefined", toObject(lastKey))

\* the request of Cache.queryPage: start is the caller's lastKey
queryPage(match, lastKey) ==
  _query(match, Undef, Undef, "undefined", lastKey)

\* PushPage with the page put in the place of what was gathered
PushPageOnly(items, Items) ==
  [i \in 1..Len(Items) |-> toObject(Items[i])]

\* items.push(...Items.map(toObject))
PushPage(items, Items) ==
  items \o [i \in 1..Len(Items) |-> toObject(Items[i])]

----------------------------------------------------------------------------
\* The store: UpdateItem on the one item under the key of the request

Tags == {"S", "N", "B", "BOOL", "NULL", "M", "L", "SS", "NS", "BS"}

\* an attribute value as the store accepts it: exactly one tag
IsAttributeValue(w) ==
  /\ w.t = "obj"
  /\ Cardinality(DOMAIN w.f) = 1
  /\ DOMAIN w.f \subseteq Tags

IsNumberValue(w) ==
  /\ IsAttributeValue(w)
  /\ DOMAIN w.f = {"N"}
  /\ w.f["N"].t = "str"
  /\ StringToNumber(w.f["N"].s).t = "num"
  /\ Len(w.f["N"].s) > 0

NumberIn(w) == StringToNumber(w.f["N"].s).n
NumberValue(n) == Obj1("N", Str(NumberToString(n)))

\* tokens split at every separator
RECURSIVE Split(_, _)
Split(tokens, sep) ==
  IF \A i \in 1..Len(tokens) : tokens[i] # sep THEN <<tokens>>
  ELSE LET at == CHOOSE i \in 1..Len(tokens) :
                   tokens[i] = sep /\ \A j \in 1..(i - 1) : tokens[j] # sep
       IN <<SubSeq(tokens, 1, at - 1)>>
          \o Split(SubSeq(tokens, at + 1, Len(tokens)), sep)

\* the actions of an update expression: SET path = operand,
\* SET path = path + operand, ADD path operand
UpdateActions(expr) ==
  IF Len(expr) < 2 THEN <<>>
  ELSE [i \in 1..Len(Split(Tail(expr), ",")) |->
          LET c == Split(Tail(expr), ",")[i]
          IN IF expr[1] = "SET" /\ Len(c) = 3 /\ c[2] = "=" THEN
               [kind |-> "set", path |-> c[1], operand |-> c[3]]
             ELSE IF expr[1] = "SET" /\ Len(c) = 5 /\ c[2] = "=" /\ c[4] = "+"
             THEN [kind |-> "plus", path |-> c[1], left |-> c[3],
                   operand |-> c[5]]
             ELSE IF expr[1] = "ADD" /\ Len(c) = 2 THEN
               [kind |-> "add", path |-> c[1], operand |-> c[2]]
             ELSE [kind |-> "syntax error"]]

Compare(comparison, attr, operand) ==
  CASE comparison = "=" -> attr = operand
    [] comparison = "<>" -> attr # operand
    [] comparison \in {"<", "<=", ">", ">="} ->
         /\ IsNumberValue(attr)
         /\ IsNumberValue(operand)
         /\ CASE comparison = "<" -> NumberIn(attr) < NumberIn(operand)
              [] comparison = "<=" -> NumberIn(attr) <= NumberIn(operand)
              [] comparison = ">" -> NumberIn(attr) > NumberIn(operand)
              [] OTHER -> NumberIn(attr) >= NumberIn(operand)
    [] OTHER -> FALSE

\* UpdateItem: the error it answers with ("none" when it succeeds), the
\* item it leaves under the key, and the Attributes of its response
UpdateItem(item, req) ==
  LET names == req.ExpressionAttributeNames
      values == req.ExpressionAttributeValues
      acts == UpdateActions(req.UpdateExpression)
      old == IF item.t = "obj" THEN item.f ELSE [k \in {} |-> Undef]
      nameOk(p) == p \in DOMAIN names
      valueOk(p) == p \in DOMAIN values /\ IsAttributeValue(values[p])
      wellFormed ==
        /\ Len(acts) > 0
        /\ req.Key.t = "obj"
        /\ \A k \in DOMAIN req.Key.f : IsAttributeValue(req.Key.f[k])
        /\ \A i \in 1..Len(acts) :
             /\ acts[i].kind # "syntax error"
             /\ nameOk(acts[i].path)
             /\ valueOk(acts[i].operand)
             /\ acts[i].kind = "plus" => nameOk(acts[i].left)
             /\ names[acts[i].path] \notin DOMAIN req.Key.f
        /\ \A i, j \in 1..Len(acts) :
             i # j => names[acts[i].path] # names[acts[j].path]
        /\ Len(req.ConditionExpression) > 0 =>
             /\ Len(req.ConditionExpression) = 3
             /\ nameOk(req.ConditionExpression[1])
             /\ valueOk(req.ConditionExpression[3])
      conditionHolds ==
        Len(req.ConditionExpression) > 0 =>
          LET attr == names[req.ConditionExpression[1]]
          IN /\ attr \in DOMAIN old
             /\ Compare(req.ConditionExpression[2], old[attr],
                        values[req.ConditionExpression[3]])
      applicable(a) ==
        CASE a.kind = "set" -> TRUE
          [] a.kind = "plus" ->
               /\ names[a.left] \in DOMAIN old
               /\ IsNumberValue(old[names[a.left]])
               /\ IsNumberValue(values[a.operand])
          [] OTHER ->
               /\ IsNumberValue(values[a.operand])
               /\ names[a.path] \in DOMAIN old
                    => IsNumberValue(old[names[a.path]])
      newValue(a) ==
        CASE a.kind = "set" -> values[a.operand]
          [] a.kind = "plus" ->
               NumberValue(NumberIn(old[names[a.left]])
                           + NumberIn(values[a.operand]))
          [] OTHER ->
               NumberValue((IF names[a.path] \in DOMAIN old
                            THEN NumberIn(old[names[a.path]]) ELSE 0)
                           + NumberIn(values[a.operand]))
      touched == {names[acts[i].path] : i \in 1..Len(acts)}
      actOn(attr) == acts[CHOOSE i \in 1..Len(acts) : names[acts[i].path] = attr]
      new == [k \in DOMAIN old \cup DOMAIN req.Key.f \cup touched |->
                IF k \in touched THEN newValue(actOn(k))
                ELSE IF k \in DOMAIN old THEN old[k]
                ELSE req.Key.f[k]]
  IN IF ~wellFormed THEN
       [error |-> "ValidationException", item |-> item, Attributes |-> Undef]
     ELSE IF ~conditionHolds THEN
       [error |-> "ConditionalCheckFailedException: The conditional request failed",
        item |-> item, Attributes |-> Undef]
     ELSE IF \E i \in 1..Len(acts) : ~applicable(acts[i]) THEN
       [error |-> "ValidationException", item |-> item, Attributes |-> Undef]
     ELSE
       [error |-> "none",
        item |-> Obj(new),
        Attributes |->
          CASE req.ReturnValues = "ALL_NEW" -> Obj(new)
            [] req.ReturnValues = "UPDATED_NEW" ->
                 Obj([k \in touched |-> new[k]])
            [] OTHER -> Undef]

\* DeleteItem: a request with no condition removes the item under the key
DeleteItem(item, req) ==
  [error |-> "none", item |-> Undef, Attributes |-> Undef]

\* The table as a set of items, each under its primary key
PrimaryKeys == <<"primary_key">>

KeyOf(item) == Obj([k \in Range(PrimaryKeys) |-> item.f[k]])

\* the items of a set, in the order the store walks them
RECURSIVE Walk(_)
Walk(items) ==
  IF items = {} THEN <<>>
  ELSE LET first == CHOOSE x \in items : TRUE
       IN <<first>> \o Walk(items \ {first})

\* most items the store hands out in one page of a scan
ScanLimit == 10

\* Scan, projected on keysToReturn: the page after start, and the key to
\* go on from when there is more
ScanFrom(all, keysToReturn, start) ==
  LET from == IF start.t = "undef" THEN 0
              ELSE CHOOSE i \in 1..Len(all) : KeyOf(all[i]) = start
      to == IF from + ScanLimit < Len(all) THEN from + ScanLimit ELSE Len(all)
      project(item) ==
        IF Len(keysToReturn) = 0 THEN item
        ELSE Obj([k \in DOMAIN item.f \cap Range(keysToReturn) |->
                    item.f[k]])
  IN [Items |-> [i \in 1..(to - from) |-> project(all[from + i])],
      LastEvaluatedKey |-> IF to < Len(all) THEN KeyOf(all[to]) ELSE Undef]

Scan(tbl, keysToReturn, start) ==
  CHOOSE page \in {ScanFrom(all, keysToReturn, start) :
                     all \in {Walk(tbl)}} : TRUE

\* the items a Query request matches: those whose attribute named by #S0
\* is the value under :val0
Matching(tbl, req) ==
  LET names == TableOf(req.assigns, "names")
      values == TableOf(req.assigns, "values")
  IN {x \in tbl : /\ "#S0" \in DOMAIN names
                  /\ ":val0" \in DOMAIN values
                  /\ names["#S0"] \in DOMAIN x.f
                  /\ x.f[names["#S0"]] = values[":val0"]}

\* Query: the page of at most limit matching items after the start key and
\* the key to go on from.  A start key that is not the key of an item is
\* refused.  When a page ends on the last matching item and is full, the
\* store may (eager) or may not hand out a key to go on from.
QueryFrom(all, req, limit, eager) ==
  LET start == req.ExclusiveStartKey
      known == \E i \in 1..Len(all) : KeyOf(all[i]) = start
      from == IF start.t = "undef" THEN 0
              ELSE CHOOSE i \in 1..Len(all) : KeyOf(all[i]) = start
      to == IF from + limit < Len(all) THEN from + limit ELSE Len(all)
      more == to < Len(all) \/ (eager /\ to - from = limit)
  IN IF start.t # "undef" /\ ~known
     THEN [error |-> "ValidationException", Items |-> <<>>,
           LastEvaluatedKey |-> Undef]
     ELSE [error |-> "none",
           Items |-> [i \in 1..(to - from) |-> all[from + i]],
           LastEvaluatedKey |-> IF more THEN KeyOf(all[to]) ELSE Undef]

QueryStore(tbl, req, limit, eager) ==
  CHOOSE page \in {QueryFrom(all, req, limit, eager) :
                     all \in {Walk(Matching(tbl, req))}} : TRUE

\* what becomes of one batch at the store: all of it is served, or its
\* last request is left unprocessed, or the batch is refused
Fates == {"all", "partial", "throttled"}

\* one put or delete request applied to the table
Apply(tbl, request) ==
  IF Has(request, "PutRequest") THEN
    LET item == request.f["PutRequest"].f["Item"]
    IN {x \in tbl : KeyOf(x) # KeyOf(item)} \cup {item}
  ELSE {x \in tbl : KeyOf(x) # request.f["DeleteRequest"].f["Key"]}

RECURSIVE ApplyAll(_, _)
ApplyAll(tbl, requests) ==
  IF Len(requests) = 0 THEN tbl
  ELSE ApplyAll(Apply(tbl, requests[1]), Tail(requests))

\* BatchWriteItem: the error ("none" when it answers), the table it
\* leaves, and the UnprocessedItems of its answer
BatchWriteItem(tbl, req, fate) ==
  LET n == Len(req.RequestItems)
  IN IF fate = "throttled" THEN
       [error |-> "ProvisionedThroughputExceededException",
        table |-> tbl, UnprocessedItems |-> Undef]
     ELSE IF fate = "partial" THEN
       [error |-> "none",
        table |-> ApplyAll(tbl, SubSeq(req.RequestItems, 1, n - 1)),
        UnprocessedItems |-> Obj1(TableName, Arr(<<req.RequestItems[n]>>))]
     ELSE
       [error |-> "none",
        table |-> ApplyAll(tbl, req.RequestItems),
        UnprocessedItems |-> EmptyObj]

\* most keys one BatchGetItem may name
MaxGetKeys == 100

\* BatchGetItem: a request that names a key twice is refused
BatchGetItem(tbl, req) ==
  LET n == Len(req.Keys)
  IN IF \/ n = 0
        \/ n > MaxGetKeys
        \/ \E i, j \in 1..n : i # j /\ req.Keys[i] = req.Keys[j]
     THEN [error |-> "ValidationException", Responses |-> Undef]
     ELSE [error |-> "none",
           Responses |->
             Obj1(TableName,
                  Arr(Walk({x \in tbl :
                              \E i \in 1..n : KeyOf(x) = req.Keys[i]})))]

----------------------------------------------------------------------------
\* Values handed to the codec

Text12 == <<"1", "2">>
Text007 == <<"0", "0", "7">>

Strings ==
  {<<>>, <<"a">>, <<"b">>, Text12, Text007, <<"0">>, <<"1", "2", "a">>,
   <<"1", ".", "5">>, <<"-", "3">>}
Numbers == {0 - 2, 0, 7, 12}
Buffers == {<<>>, <<97>>, <<255, 0>>, <<97, 98, 0>>}

Scalars ==
  {Str(s) : s \in Strings} \cup {Num(n) : n \in Numbers}
  \cup {Bool(TRUE), Bool(FALSE), Null} \cup {Buf(b) : b \in Buffers}

Sets ==
  {SetOf(<<>>),
   SetOf(<<Str(<<"a">>), Str(<<"b">>), Str(Text12)>>),
   SetOf(<<Str(<<>>)>>),
   SetOf(<<Num(7), Num(0 - 2), Num(0)>>),
   SetOf(<<Buf(<<97>>), Buf(<<>>), Buf(<<255, 0>>)>>),
   SetOf(<<Str(<<"a">>), Num(7)>>),
   SetOf(<<Num(7), Str(<<"a">>)>>),
   SetOf(<<Buf(<<97>>), Str(<<"a">>)>>)}

\* property names: an ordinary one and one that is also a wire tag
Keys == {"a", "S"}

\* what sits next to a nested value in a list, and (with undefined) in a map
Siblings == {Str(<<"a">>)}

Atoms == Scalars \cup Sets \cup {Arr(<<>>), EmptyObj}

\* lists of at most MaxLen elements, each v or a sibling
ListsAround(v) ==
  {Arr(e) : e \in UNION {[1..n -> Siblings \cup {v}] : n \in 1..MaxLen}}

\* maps of at most MaxLen fields, each v, a sibling or undefined
MapsAround(v) ==
  {Obj(f) : f \in UNION {[ks -> Siblings \cup {Undef, v}] :
                           ks \in {s \in SUBSET Keys :
                                     Cardinality(s) \in 1..MaxLen}}}

\* what the innermost container is wrapped around
Cores == {EmptyObj, Num(7), Str(Text12), SetOf(<<Str(<<"a">>), Str(<<"b">>)>>)}

RECURSIVE Nested(_)
Nested(d) ==
  IF d = 0 THEN Cores
  ELSE LET inner == Nested(d - 1)
       IN inner \cup UNION {ListsAround(v) \cup MapsAround(v) : v \in inner}

NativeInputs == Atoms \cup Nested(MaxDepth) \cup {Undef}

----------------------------------------------------------------------------
\* The codec as a two-step run: encode the argument, decode the result

CodecInit ==
  /\ native \in NativeInputs
  /\ wire = Undef
  /\ decoded = Undef
  /\ again = Undef
  /\ cpc = "start"
  /\ call = NoCall
  /\ params = NoRequest
  /\ stored = Undef
  /\ before = Undef
  /\ result = NoResult
  /\ ncalls = 0
  /\ procs = NoProcs
  /\ table = NoItems
  /\ loop = NoLoop
  /\ pages = NoPages

Encode ==
  /\ cpc = "start"
  /\ wire' = fromObject(native)
  /\ cpc' = "encoded"
  /\ UNCHANGED <<native, decoded, again>>
  /\ UNCHANGED cacheVars
  /\ UNCHANGED tableVars
  /\ UNCHANGED pageVars

Decode ==
  /\ cpc = "encoded"
  /\ decoded' = toObject(wire)
  /\ cpc' = "decoded"
  /\ UNCHANGED <<native, wire, again>>
  /\ UNCHANGED cacheVars
  /\ UNCHANGED tableVars
  /\ UNCHANGED pageVars

\* values that arrive where a wire value is expected and are not one:
\* no recognized tag, or more than one; with two well-formed ones
WireInputs ==
  {Obj1("S", Str(<<"a">>)),
   Obj1("M", Obj1("a", Obj1("S", Str(<<"a">>)))),
   Obj([k \in {"S", "N"} |-> IF k = "S" THEN Str(<<"a">>) ELSE Str(<<"7">>)]),
   Obj([k \in {"NULL", "BOOL"} |-> Bool(TRUE)]),
   Obj1("M", Obj1("a", EmptyObj)),
   Obj1("M", Obj1("a", Obj1("X", Str(<<"a">>)))),
   Obj1("L", Arr(<<EmptyObj>>)),
   Obj1("L", Arr(<<Obj([k \in {"S", "N"} |->
                         IF k = "S" THEN Str(<<"a">>) ELSE Str(<<"7">>)])>>))}

\* toObject called on a value that did not come out of fromObject
DecodeWire ==
  /\ cpc = "start"
  /\ native = Undef
  /\ \E w \in WireInputs :
       /\ wire' = w
       /\ decoded' = toObject(w)
  /\ cpc' = "decoded wire"
  /\ UNCHANGED <<native, again>>
  /\ UNCHANGED cacheVars
  /\ UNCHANGED tableVars
  /\ UNCHANGED pageVars

\* toObject called on what toObject returned
DecodeAgain ==
  /\ cpc = "decoded"
  /\ decoded.t # "error"
  /\ again' = toObject(decoded)
  /\ cpc' = "decoded again"
  /\ UNCHANGED <<native, wire, decoded>>
  /\ UNCHANGED cacheVars
  /\ UNCHANGED tableVars
  /\ UNCHANGED pageVars

CodecNext == Encode \/ Decode \/ DecodeWire \/ DecodeAgain

CodecSpec == CodecInit /\ [][CodecNext]_vars

----------------------------------------------------------------------------
\* Arguments handed to the Cache methods

Entry(k, v) == [k |-> k, v |-> v]

\* ordered objects of at most MaxFields fields, names from ns, values from vs
OrderedMaps(ns, vs) ==
  {OObj(e) : e \in
     UNION {{f \in [1..n -> {Entry(k, v) : k \in ns, v \in vs}] :
               \A i, j \in 1..n : i # j => f[i].k # f[j].k} :
            n \in 0..MaxFields}}

TextV == <<"v">>
TextOther == <<"o", "t", "h", "e", "r">>
TextOther3 == <<"o", "t", "h", "e", "r", "3">>

MatchKey == OObj(<<Entry("primary_key", Str(TextV))>>)

MatchNames == {"secondary_key", "primary_key"}
MatchArgs == {Undef} \cup OrderedMaps(MatchNames, {Str(<<"u">>)})

Comparison(c, v) == OObj(<<Entry(c, v)>>)

RangeArgs ==
  {Undef, OObj(<<>>), OObj(<<Entry("sort_key", OObj(<<>>))>>),
   OObj(<<Entry("sort_key", Comparison(">", Num(50)))>>)}

FilterNames == {"favorite", "sort_key"}
Comparators ==
  {Comparison("=", Bool(TRUE)), Comparison(">", Num(7)),
   OObj(<<Entry(">", Num(0)), Entry("<", Num(12))>>)}
FilterArgs == {Undef} \cup OrderedMaps(FilterNames, Comparators)

\* indexName and start as they are passed together: neither, or both
PageArgs ==
  {[indexName |-> "undefined", start |-> Undef],
   [indexName |-> "by_user",
    start |-> Obj1("primary_key", Obj1("S", Str(TextV)))]}

FieldNames == {"count", "S"}
UpdateArgs == OrderedMaps(FieldNames, {Str(<<"a">>), Undef})
DeltaArgs == OrderedMaps(FieldNames, {Num(0 - 2), Num(5)})

\* condition and returnValues as updateOne is called with them
ConditionArgs ==
  {[condition |-> Undef, returnValues |-> "NONE"],
   [condition |-> Undef, returnValues |-> "ALL_NEW"],
   [condition |-> OObj(<<Entry("something",
                               Comparison("=", Str(TextOther)))>>),
    returnValues |-> "ALL_NEW"],
   [condition |-> OObj(<<Entry("something",
                               Comparison("=", Str(TextOther3)))>>),
    returnValues |-> "ALL_NEW"],
   [condition |-> OObj(<<Entry("something", OObj(<<>>))>>),
    returnValues |-> "NONE"]}

KeyAttrs == Plain(MatchKey).f
ItemOf(attrs) ==
  Obj([k \in DOMAIN KeyAttrs \cup DOMAIN attrs |->
         IF k \in DOMAIN attrs THEN attrs[k] ELSE fromObject(KeyAttrs[k])])

InitialItems ==
  {Undef,
   ItemOf([k \in {"something"} |-> Obj1("S", Str(TextOther))]),
   ItemOf([k \in {"something", "count", "S"} |->
             IF k = "count" THEN NumberValue(1)
             ELSE IF k = "S" THEN NumberValue(3)
             ELSE Obj1("S", Str(TextOther))])}

----------------------------------------------------------------------------
\* Cache methods as single steps: build the request, send it, return

CacheInit ==
  /\ native = Undef
  /\ wire = Undef
  /\ decoded = Undef
  /\ again = Undef
  /\ cpc = "start"
  /\ call = NoCall
  /\ params = NoRequest
  /\ stored \in InitialItems
  /\ before = Undef
  /\ result = NoResult
  /\ ncalls = 0
  /\ procs = NoProcs
  /\ table = NoItems
  /\ loop = NoLoop
  /\ pages = NoPages

\* _query, as query and queryPage call it.  It neither reads nor writes
\* the item, so it is taken as the first call only.
Query ==
  /\ call = NoCall
  /\ \E match \in MatchArgs, range \in RangeArgs, filter \in FilterArgs,
        page \in PageArgs :
       /\ call' = [op |-> "_query", match |-> match, range |-> range,
                   filter |-> filter, indexName |-> page.indexName,
                   start |-> page.start]
       /\ params' = _query(match, range, filter, page.indexName, page.start)
       /\ result' = IF params'.cmd = "none" THEN Rejected(params'.threw)
                    ELSE NoResult
  /\ ncalls' = ncalls + 1
  /\ UNCHANGED <<stored, before>>
  /\ UNCHANGED codecVars
  /\ UNCHANGED tableVars
  /\ UNCHANGED pageVars

\* a request built by updateOne or increment goes to the store, and the
\* Attributes of the answer come back through toObject
SendUpdate(req) ==
  LET ans == UpdateItem(stored, req)
  IN /\ params' = req
     /\ before' = stored
     /\ IF req.cmd = "none" THEN
          /\ stored' = stored
          /\ result' = Rejected(req.threw)
        ELSE IF ans.error # "none" THEN
          /\ stored' = stored
          /\ result' = Rejected(ans.error)
        ELSE
          /\ stored' = ans.item
          /\ result' = Returned(toObject(ans.Attributes))

UpdateOne ==
  /\ ncalls < MaxCalls
  /\ \E update \in UpdateArgs, how \in ConditionArgs :
       /\ call' = [op |-> "updateOne", update |-> update,
                   condition |-> how.condition,
                   returnValues |-> how.returnValues]
       /\ SendUpdate(updateOne(MatchKey, update, how.returnValues,
                               how.condition))
  /\ ncalls' = ncalls + 1
  /\ UNCHANGED codecVars
  /\ UNCHANGED tableVars
  /\ UNCHANGED pageVars

Increment ==
  /\ ncalls < MaxCalls
  /\ \E update \in DeltaArgs :
       /\ call' = [op |-> "increment", update |-> update,
                   returnValues |-> "UPDATED_NEW"]
       /\ SendUpdate(increment(MatchKey, update, "UPDATED_NEW"))
  /\ ncalls' = ncalls + 1
  /\ UNCHANGED codecVars
  /\ UNCHANGED tableVars
  /\ UNCHANGED pageVars

\* the conditions deleteOne is called with
DeleteConditions ==
  {Undef,
   OObj(<<Entry("something", Comparison("=", Str(TextOther)))>>),
   OObj(<<Entry("something", Comparison("=", Str(TextOther3)))>>)}

DeleteOne ==
  /\ ncalls < MaxCalls
  /\ \E condition \in DeleteConditions :
       LET req == deleteOne(MatchKey, condition)
           ans == DeleteItem(stored, req)
       IN /\ call' = [op |-> "deleteOne", condition |-> condition]
          /\ params' = req
          /\ before' = stored
          /\ stored' = IF ans.error = "none" THEN ans.item ELSE stored
          /\ result' = IF ans.error = "none" THEN Returned(EmptyObj)
                       ELSE Rejected(ans.error)
  /\ ncalls' = ncalls + 1
  /\ UNCHANGED codecVars
  /\ UNCHANGED tableVars
  /\ UNCHANGED pageVars

CacheNext == Query \/ UpdateOne \/ Increment \/ DeleteOne

CacheSpec == CacheInit /\ [][CacheNext]_vars

----------------------------------------------------------------------------
\* Increment calls running side by side.  A call builds its request and
\* hands it to the client (Begin), the store serves the requests it holds
\* one at a time in any order (Serve), and the call resumes after its await
\* with the answer (Resume).  `before` is the item as it was put before the
\* calls began.

Procs == 1..MaxCalls

IdleProc == [pc |-> "idle"]

\* the updates of calls that bump one and the same field
SameFieldArgs == {OObj(<<Entry("count", Num(d))>>) : d \in {0 - 2, 5}}

IncrementInit ==
  /\ native = Undef
  /\ wire = Undef
  /\ decoded = Undef
  /\ again = Undef
  /\ cpc = "start"
  /\ call = NoCall
  /\ params = NoRequest
  /\ stored \in InitialItems
  /\ before = stored
  /\ result = NoResult
  /\ ncalls = 0
  /\ procs = [p \in Procs |-> IdleProc]
  /\ table = NoItems
  /\ loop = NoLoop
  /\ pages = NoPages

Begin(p) ==
  /\ procs[p].pc = "idle"
  /\ \E update \in SameFieldArgs :
       procs' = [procs EXCEPT ![p] =
                   [pc |-> "sent", update |-> update,
                    req |-> increment(MatchKey, update, "UPDATED_NEW")]]
  /\ UNCHANGED <<stored, table>>

Serve(p) ==
  /\ procs[p].pc = "sent"
  /\ LET ans == UpdateItem(stored, procs[p].req)
     IN /\ stored' = IF ans.error = "none" THEN ans.item ELSE stored
        /\ procs' = [procs EXCEPT ![p] =
                       [pc |-> "answered", update |-> procs[p].update,
                        req |-> procs[p].req, ans |-> ans]]
  /\ UNCHANGED table

Resume(p) ==
  /\ procs[p].pc = "answered"
  /\ procs' = [procs EXCEPT ![p] =
                 [pc |-> "done", update |-> procs[p].update,
                  req |-> procs[p].req,
                  result |-> IF procs[p].ans.error # "none"
                             THEN Rejected(procs[p].ans.error)
                             ELSE Returned(toObject(procs[p].ans.Attributes))]]
  /\ UNCHANGED <<stored, table>>

IncrementNext ==
  /\ \E p \in Procs : Begin(p) \/ Serve(p) \/ Resume(p)
  /\ UNCHANGED <<call, params, before, result, ncalls>>
  /\ UNCHANGED codecVars
  /\ UNCHANGED pageVars

IncrementSpec == IncrementInit /\ [][IncrementNext]_vars

----------------------------------------------------------------------------
\* Callers of the codec running side by side.  Every caller hands the one
\* object `native` to fromObject, and hands toObject a wire value that it or
\* another caller got back; a call runs to its return without a break, and
\* calls of different callers come in any order.

\* arguments in which the delete of fromObject has, and has not, work to do
SharedInputs == Atoms \cup Nested(1)

SharedInit ==
  /\ native \in SharedInputs
  /\ wire = Undef
  /\ decoded = Undef
  /\ again = Undef
  /\ cpc = "start"
  /\ call = NoCall
  /\ params = NoRequest
  /\ stored = Undef
  /\ before = Undef
  /\ result = NoResult
  /\ ncalls = 0
  /\ procs = [p \in Procs |-> IdleProc]
  /\ table = NoItems
  /\ loop = NoLoop
  /\ pages = NoPages

CallFromObject(p) ==
  /\ procs[p].pc = "idle"
  /\ fromObject(native).t # "error"
  /\ procs' = [procs EXCEPT ![p] =
                 [pc |-> "encoded", given |-> native,
                  wire |-> fromObject(native)]]
  /\ native' = AfterFromObject(native)

CallToObject(p) ==
  /\ procs[p].pc = "encoded"
  /\ \E q \in Procs :
       /\ procs[q].pc # "idle"
       /\ procs' = [procs EXCEPT
                      ![q].wire = AfterToObject(procs[q].wire),
                      ![p] = [pc |-> "decoded", given |-> procs[p].given,
                              wire |-> IF p = q
                                       THEN AfterToObject(procs[q].wire)
                                       ELSE procs[p].wire,
                              from |-> q, taken |-> procs[q].wire,
                              decoded |-> toObject(procs[q].wire)]]
  /\ UNCHANGED native

SharedNext ==
  /\ \E p \in Procs : CallFromObject(p) \/ CallToObject(p)
  /\ UNCHANGED <<wire, decoded, again, cpc>>
  /\ UNCHANGED cacheVars
  /\ UNCHANGED table
  /\ UNCHANGED pageVars

SharedSpec == SharedInit /\ [][SharedNext]_vars

----------------------------------------------------------------------------
\* Cache methods that work on many items: putMany, deleteAll, getMany

\* the item under key number i, and the first n of them
ItemOfKey(i) == Obj1("primary_key", Str(<<"k">> \o NatToDecimal(i)))
ItemsUpTo(n) == [i \in 1..n |-> ItemOfKey(i)]

\* how many items putMany is handed: none, few, a full batch, one more
ItemCounts == {0, 1, 2, BatchSize, BatchSize + 1}

\* the matches getMany is handed, as key numbers
MatchLists == {<<1>>, <<1, 2>>, <<3, 1>>, <<1, 1>>, <<2, 1, 2>>}

\* the commands of one Promise.all, sent to the store one after another
RECURSIVE SendAll(_, _, _)
SendAll(tbl, cmds, fates) ==
  IF Len(cmds) = 0 THEN [table |-> tbl, answers |-> <<>>]
  ELSE LET ans == BatchWriteItem(tbl, cmds[1], fates[1])
           rest == SendAll(ans.table, Tail(cmds), Tail(fates))
       IN [table |-> rest.table, answers |-> <<ans>> \o rest.answers]

\* what Promise.all settles with: the first rejection, or all the answers
PromiseAll(answers) ==
  IF \E i \in 1..Len(answers) : answers[i].error # "none" THEN
    Rejected(answers[CHOOSE i \in 1..Len(answers) :
                       /\ answers[i].error # "none"
                       /\ \A j \in 1..(i - 1) : answers[j].error = "none"].error)
  ELSE Returned(Arr([i \in 1..Len(answers) |->
                       Obj1("UnprocessedItems", answers[i].UnprocessedItems)]))

\* the do-while of deleteAll: every page of the scan, decoded
RECURSIVE ScanLoop(_, _, _)
ScanLoop(tbl, keys, last) ==
  LET page == Scan(tbl, keys, last)
      items == [i \in 1..Len(page.Items) |-> toObject(page.Items[i])]
  IN IF page.LastEvaluatedKey.t = "undef" THEN items
     ELSE items \o ScanLoop(tbl, keys, page.LastEvaluatedKey)

TableInit ==
  /\ native = Undef
  /\ wire = Undef
  /\ decoded = Undef
  /\ again = Undef
  /\ cpc = "start"
  /\ call = NoCall
  /\ params = NoRequest
  /\ stored = Undef
  /\ before = Undef
  /\ result = NoResult
  /\ ncalls = 0
  /\ procs = NoProcs
  /\ table \in {NoItems, {fromObject(ItemOfKey(i)) : i \in 1..2}}
  /\ loop = NoLoop
  /\ pages = NoPages

PutMany ==
  /\ ncalls < MaxCalls
  /\ \E n \in ItemCounts :
       LET cmds == putMany(ItemsUpTo(n))
       IN \E fates \in [1..Len(cmds) -> Fates] :
            LET sent == SendAll(table, cmds, fates)
            IN /\ call' = [op |-> "putMany", items |-> ItemsUpTo(n)]
               /\ params' = cmds
               /\ table' = sent.table
               /\ result' = PromiseAll(sent.answers)
  /\ ncalls' = ncalls + 1
  /\ UNCHANGED <<stored, before, procs>>
  /\ UNCHANGED codecVars
  /\ UNCHANGED pageVars

DeleteAll ==
  /\ ncalls < MaxCalls
  /\ LET items == ScanLoop(table, PrimaryKeys, Undef)
         cmds == deleteAll(items)
     IN \E fates \in [1..Len(cmds) -> Fates] :
          LET sent == SendAll(table, cmds, fates)
              all == PromiseAll(sent.answers)
          IN /\ call' = [op |-> "deleteAll", items |-> items]
             /\ params' = cmds
             /\ table' = sent.table
             /\ result' = IF all.threw # "none" THEN all ELSE Returned(Undef)
  /\ ncalls' = ncalls + 1
  /\ UNCHANGED <<stored, before, procs>>
  /\ UNCHANGED codecVars
  /\ UNCHANGED pageVars

GetMany ==
  /\ ncalls < MaxCalls
  /\ \E keys \in MatchLists :
       LET matches == [i \in 1..Len(keys) |-> ItemOfKey(keys[i])]
           req == getMany(matches)
           ans == BatchGetItem(table, req)
       IN /\ call' = [op |-> "getMany", matches |-> matches]
          /\ params' = req
          /\ result' =
               IF ans.error # "none" THEN Rejected(ans.error)
               ELSE Returned(
                      Arr([i \in 1..Len(ans.Responses.f[TableName].e) |->
                             toObject(ans.Responses.f[TableName].e[i])]))
  /\ ncalls' = ncalls + 1
  /\ UNCHANGED <<stored, before, procs, table>>
  /\ UNCHANGED codecVars
  /\ UNCHANGED pageVars

TableNext == PutMany \/ DeleteAll \/ GetMany

TableSpec == TableInit /\ [][TableNext]_vars

----------------------------------------------------------------------------
\* The list and set modes of update: appendToList, addToSet, deleteFromSet.
\* Each builds one UpdateItem request over the fields of `update`, with the
\* values encoded by fromObject, and the store applies it to the item.

\* the names and values tables: #K<i> for field i, :val<i> for its value,
\* and :empty for the list a missing field starts from
ModeAssigns(update) ==
  Flat([i \in 1..Len(update.e) |->
          <<Assign("names", Placeholder("#K", i), update.e[i].k, "update"),
            Assign("values", Placeholder(":val", i),
                   fromObject(update.e[i].v), "update")>>])
  \o <<Assign("values", ":empty", Obj1("L", Arr(<<>>)), "update")>>

ModeRequest(match, expression, update) ==
  LET assigns == ModeAssigns(update)
  IN [cmd |-> "UpdateItem",
      Key |-> fromObject(Plain(match)),
      UpdateExpression |-> expression,
      assigns |-> assigns,
      ExpressionAttributeNames |-> TableOf(assigns, "names"),
      ExpressionAttributeValues |-> TableOf(assigns, "values")]

\* appendToList with the given list put in the place of the stored one
appendToListReplace(match, update) ==
  ModeRequest(match,
              <<"SET">>
              \o Join([i \in 1..Len(update.e) |->
                         <<Placeholder("#K", i), "=", Placeholder(":val", i)>>],
                      <<",">>),
              update)

\* SET #K<i> = list_append(if_not_exists(#K<i>, :empty), :val<i>)
appendToList(match, update) ==
  ModeRequest(match,
              <<"SET">>
              \o Join([i \in 1..Len(update.e) |->
                         <<Placeholder("#K", i), "=", "list_append",
                           "if_not_exists", Placeholder("#K", i), ":empty",
                           Placeholder(":val", i)>>], <<",">>),
              update)

\* addToSet with the given set put in the place of the stored one
addToSetReplace(match, update) ==
  ModeRequest(match,
              <<"SET">>
              \o Join([i \in 1..Len(update.e) |->
                         <<Placeholder("#K", i), "=", Placeholder(":val", i)>>],
                      <<",">>),
              update)

\* ADD #K<i> :val<i>
addToSet(match, update) ==
  ModeRequest(match,
              <<"ADD">>
              \o Join([i \in 1..Len(update.e) |->
                         <<Placeholder("#K", i), Placeholder(":val", i)>>],
                      <<",">>),
              update)

\* DELETE #K<i> :val<i>
deleteFromSet(match, update) ==
  ModeRequest(match,
              <<"DELETE">>
              \o Join([i \in 1..Len(update.e) |->
                         <<Placeholder("#K", i), Placeholder(":val", i)>>],
                      <<",">>),
              update)

\* a wire value that is a list, and one that is a set of strings
IsListValue(w) == IsAttributeValue(w) /\ Has(w, "L") /\ w.f["L"].t = "arr"
IsStringSet(w) ==
  /\ IsAttributeValue(w)
  /\ Has(w, "SS")
  /\ w.f["SS"].t = "arr"
  /\ Len(w.f["SS"].e) > 0
  /\ \A i \in 1..Len(w.f["SS"].e) : w.f["SS"].e[i].t = "str"

\* the members of a after those of b that a does not have, and the members
\* of a that b does not have
Union(a, b) == a \o SelectSeq(b, LAMBDA x : x \notin Range(a))
Minus(a, b) == SelectSeq(a, LAMBDA x : x \notin Range(b))

\* the store's UpdateItem for these expressions: SET with list_append and
\* if_not_exists, ADD and DELETE on sets.  A set that is left without
\* members goes away with its attribute.
UpdateModes(item, req) ==
  LET names == req.ExpressionAttributeNames
      values == req.ExpressionAttributeValues
      verb == req.UpdateExpression[1]
      acts == Split(Tail(req.UpdateExpression), ",")
      old == item.f
      attr(a) == names[a[1]]
      operand(a) == values[a[Len(a)]]
      base(a) == IF names[a[5]] \in DOMAIN old THEN old[names[a[5]]]
                 ELSE values[a[6]]
      ok(a) ==
        CASE verb = "SET" /\ Len(a) = 3 -> IsAttributeValue(operand(a))
          [] verb = "SET" ->
               IsListValue(base(a)) /\ IsListValue(operand(a))
          [] OTHER ->
               /\ IsStringSet(operand(a))
               /\ attr(a) \in DOMAIN old => IsStringSet(old[attr(a)])
      new(a) ==
        CASE verb = "SET" /\ Len(a) = 3 -> operand(a)
          [] verb = "SET" ->
               Obj1("L", Arr(base(a).f["L"].e \o operand(a).f["L"].e))
          [] verb = "ADD" ->
               IF attr(a) \in DOMAIN old
               THEN Obj1("SS", Arr(Union(old[attr(a)].f["SS"].e,
                                         operand(a).f["SS"].e)))
               ELSE operand(a)
          [] OTHER ->
               IF attr(a) \in DOMAIN old
               THEN Obj1("SS", Arr(Minus(old[attr(a)].f["SS"].e,
                                         operand(a).f["SS"].e)))
               ELSE Undef
      gone(v) == v.t = "undef" \/ (Has(v, "SS") /\ Len(v.f["SS"].e) = 0)
      touched == {attr(acts[i]) : i \in 1..Len(acts)}
      actOn(k) == acts[CHOOSE i \in 1..Len(acts) : attr(acts[i]) = k]
  IN IF \E i \in 1..Len(acts) : ~ok(acts[i])
     THEN [error |-> "ValidationException", item |-> item]
     ELSE [error |-> "none",
           item |-> Obj([k \in (DOMAIN old \cup touched)
                                 \ {x \in touched : gone(new(actOn(x)))} |->
                           IF k \in touched THEN new(actOn(k)) ELSE old[k]])]

\* the fields the modes work on, and the other field of the item
ModeItems ==
  {ItemOf([k \in {"something"} \cup fs |->
             CASE k = "images" ->
                    Obj1("L", Arr(<<Obj1("S", Str(<<"a">>)),
                                    Obj1("S", Str(<<"b">>))>>))
               [] k = "tags" ->
                    Obj1("SS", Arr(<<Str(<<"a">>), Str(<<"b">>)>>))
               [] OTHER -> Obj1("S", Str(TextOther))]) :
     fs \in SUBSET {"images", "tags"}}

\* the lists handed to appendToList: empty, one member, two, one twice
ListArgs ==
  {OObj(<<Entry("images", Arr(e))>>) :
     e \in {<<>>, <<Str(<<"a">>)>>, <<Str(<<"a">>), Str(<<"c">>)>>,
            <<Str(<<"b">>), Str(<<"b">>)>>}}

\* the sets handed to addToSet and deleteFromSet: members the stored set
\* has, members it has not, and all of its members
SetArgs ==
  {OObj(<<Entry("tags", SetOf(m))>>) :
     m \in {<<Str(<<"a">>)>>, <<Str(<<"c">>)>>,
            <<Str(<<"b">>), Str(<<"c">>)>>,
            <<Str(<<"a">>), Str(<<"b">>)>>}}

ModeInit ==
  /\ native = Undef
  /\ wire = Undef
  /\ decoded = Undef
  /\ again = Undef
  /\ cpc = "start"
  /\ call = NoCall
  /\ params = NoRequest
  /\ stored \in ModeItems
  /\ before = Undef
  /\ result = NoResult
  /\ ncalls = 0
  /\ procs = NoProcs
  /\ table = NoItems
  /\ loop = NoLoop
  /\ pages = NoPages

\* the request goes to the store; the methods return nothing
SendMode(req) ==
  LET ans == UpdateModes(stored, req)
  IN /\ params' = req
     /\ before' = stored
     /\ stored' = ans.item
     /\ result' = IF ans.error # "none" THEN Rejected(ans.error)
                  ELSE Returned(Undef)

AppendToList ==
  /\ ncalls < MaxCalls
  /\ \E update \in ListArgs :
       /\ call' = [op |-> "appendToList", update |-> update]
       /\ SendMode(appendToList(MatchKey, update))
  /\ ncalls' = ncalls + 1

AddToSet ==
  /\ ncalls < MaxCalls
  /\ \E update \in SetArgs :
       /\ call' = [op |-> "addToSet", update |-> update]
       /\ SendMode(addToSet(MatchKey, update))
  /\ ncalls' = ncalls + 1

DeleteFromSet ==
  /\ ncalls < MaxCalls
  /\ \E update \in SetArgs :
       /\ call' = [op |-> "deleteFromSet", update |-> update]
       /\ SendMode(deleteFromSet(MatchKey, update))
  /\ ncalls' = ncalls + 1

ModeNext ==
  /\ AppendToList \/ AddToSet \/ DeleteFromSet
  /\ UNCHANGED codecVars
  /\ UNCHANGED tableVars
  /\ UNCHANGED pageVars

ModeSpec == ModeInit /\ [][ModeNext]_vars

----------------------------------------------------------------------------
\* Paged reads: query, getAll and queryPage.  A call builds the request of
\* one page (Send), the store answers it (Answer), and the call resumes
\* after its await (Turn for the loops of query and getAll, Return for
\* queryPage).  A caller of queryPage goes on with the lastKey it got back
\* (NextPage) and gathers the items of the pages in loop.seen.  `pages` is
\* the log of the start keys sent and the pages answered since the call, or
\* the first queryPage of a walk, began.

\* items under two users by turns, numbered by their sort key
PagedItem(i) ==
  Obj([k \in {"primary_key", "secondary_key", "sort_key"} |->
         CASE k = "primary_key" -> Str(<<"k">> \o NatToDecimal(i))
           [] k = "secondary_key" ->
                IF i % 2 = 1 THEN Str(<<"u">>) ELSE Str(<<"w">>)
           [] OTHER -> Num(i)])

\* how many items the table holds: none, a few, more than one page of a scan
PageCounts == {0, 3, ScanLimit + 2}

\* the limits handed to query and queryPage
PageLimits == {1, 2, DefaultLimit}

MatchUser == OObj(<<Entry("secondary_key", Str(<<"u">>))>>)

PageInit ==
  /\ native = Undef
  /\ wire = Undef
  /\ decoded = Undef
  /\ again = Undef
  /\ cpc = "start"
  /\ call = NoCall
  /\ params = NoRequest
  /\ stored = Undef
  /\ before = Undef
  /\ result = NoResult
  /\ ncalls = 0
  /\ procs = NoProcs
  /\ table \in {{fromObject(PagedItem(i)) : i \in 1..n} : n \in PageCounts}
  /\ loop = NoLoop
  /\ pages = NoPages

\* loop.sent counts the requests sent since the method was called
Fresh ==
  [pc |-> "send", items |-> <<>>, last |-> Undef, seen |-> <<>>, sent |-> 0]

\* query({table, match, limit}) is called
StartQuery ==
  /\ loop.pc \in {"idle", "done"}
  /\ ncalls < MaxCalls
  /\ \E limit \in PageLimits :
       call' = [op |-> "query", match |-> MatchUser, limit |-> limit]
  /\ loop' = Fresh
  /\ pages' = NoPages
  /\ params' = NoRequest
  /\ result' = NoResult
  /\ ncalls' = ncalls + 1

\* getAll({table, keysToReturn}) is called
StartGetAll ==
  /\ loop.pc \in {"idle", "done"}
  /\ ncalls < MaxCalls
  /\ \E keys \in {<<>>, PrimaryKeys} :
       call' = [op |-> "getAll", keysToReturn |-> keys]
  /\ loop' = Fresh
  /\ pages' = NoPages
  /\ params' = NoRequest
  /\ result' = NoResult
  /\ ncalls' = ncalls + 1

\* queryPage({table, match, limit}) is called with no lastKey
StartQueryPage ==
  /\ loop.pc \in {"idle", "done"}
  /\ ncalls < MaxCalls
  /\ \E limit \in PageLimits :
       call' = [op |-> "queryPage", match |-> MatchUser, limit |-> limit,
                lastKey |-> Undef]
  /\ loop' = Fresh
  /\ pages' = NoPages
  /\ params' = NoRequest
  /\ result' = NoResult
  /\ ncalls' = ncalls + 1

\* queryPage is called again with the lastKey of the page before
NextPage ==
  /\ loop.pc = "done"
  /\ call.op = "queryPage"
  /\ result.threw = "none"
  /\ result.value.f["lastKey"].t # "undef"
  /\ call' = [call EXCEPT !.lastKey = result.value.f["lastKey"]]
  /\ loop' = [loop EXCEPT !.pc = "send", !.sent = 0]
  /\ params' = NoRequest
  /\ result' = NoResult
  /\ UNCHANGED <<pages, ncalls>>

Send ==
  /\ loop.pc = "send"
  /\ params' = CASE call.op = "query" -> query(call.match, loop.last)
                 [] call.op = "getAll" ->
                      getAll(call.keysToReturn, loop.last)
                 [] OTHER -> queryPage(call.match, call.lastKey)
  /\ pages' = Append(pages, [start |-> params'.ExclusiveStartKey,
                             answered |-> FALSE])
  /\ loop' = [loop EXCEPT !.pc = "wait", !.sent = loop.sent + 1]
  /\ UNCHANGED <<call, result, ncalls>>

Answer ==
  /\ loop.pc = "wait"
  /\ \E eager \in BOOLEAN :
       \E ans \in {IF params.cmd = "Scan"
                   THEN Scan(table, params.keysToReturn,
                             params.ExclusiveStartKey)
                   ELSE QueryStore(table, params, call.limit, eager)} :
          pages' = [pages EXCEPT ![Len(pages)] =
                      [start |-> pages[Len(pages)].start,
                       answered |-> TRUE,
                       error |-> IF params.cmd = "Scan" THEN "none"
                                 ELSE ans.error,
                       Items |-> ans.Items,
                       LastEvaluatedKey |-> ans.LastEvaluatedKey]]
  /\ loop' = [loop EXCEPT !.pc = "turn"]
  /\ UNCHANGED <<call, params, result, ncalls>>

\* the rest of one turn of the do-while of query and getAll
Turn ==
  /\ loop.pc = "turn"
  /\ call.op \in {"query", "getAll"}
  /\ LET page == pages[Len(pages)]
         items == PushPage(loop.items, page.Items)
         last == page.LastEvaluatedKey
     IN IF page.error # "none" THEN
          /\ loop' = [loop EXCEPT !.pc = "done"]
          /\ result' = Rejected(page.error)
        ELSE IF Truthy(last) THEN
          /\ loop' = [loop EXCEPT !.pc = "send", !.items = items,
                                  !.last = last]
          /\ result' = result
        ELSE
          /\ loop' = [loop EXCEPT !.pc = "done", !.items = items,
                                  !.last = last]
          /\ result' = Returned(Arr(items))
  /\ UNCHANGED <<call, params, pages, ncalls>>

\* the return of queryPage
Return ==
  /\ loop.pc = "turn"
  /\ call.op = "queryPage"
  /\ LET page == pages[Len(pages)]
         items == [i \in 1..Len(page.Items) |-> toObject(page.Items[i])]
     IN IF page.error # "none" THEN
          /\ loop' = [loop EXCEPT !.pc = "done"]
          /\ result' = Rejected(page.error)
        ELSE
          /\ loop' = [loop EXCEPT !.pc = "done", !.seen = loop.seen \o items]
          /\ result' = Returned(Obj([k \in {"items", "lastKey"} |->
                                       IF k = "items" THEN Arr(items)
                                       ELSE page.LastEvaluatedKey]))
  /\ UNCHANGED <<call, params, pages, ncalls>>

Proceed ==
  /\ Send \/ Answer \/ Turn \/ Return
  /\ UNCHANGED <<stored, before, procs, table>>
  /\ UNCHANGED codecVars

Enter ==
  /\ StartQuery \/ StartGetAll \/ StartQueryPage \/ NextPage
  /\ UNCHANGED <<stored, before, procs, table>>
  /\ UNCHANGED codecVars

PageNext == Enter \/ Proceed

PageSpec == PageInit /\ [][PageNext]_vars

\* a request that was sent is answered, and a call that was answered goes on
PageLiveSpec == PageSpec /\ WF_vars(Proceed)

----------------------------------------------------------------------------
\* Properties of the codec

\* the native values: string, number, boolean, null, byte buffer, list,
\* map, and Set whose members are all strings, all numbers or all buffers
RECURSIVE IsNativeValue(_)
IsNativeValue(v) ==
  CASE v.t \in {"str", "num", "bool", "null", "buf"} -> TRUE
    [] v.t = "arr" -> \A i \in 1..Len(v.e) : IsNativeValue(v.e[i])
    [] v.t = "obj" -> \A k \in DOMAIN v.f : IsNativeValue(v.f[k])
    [] v.t = "set" ->
         \E kind \in {"str", "num", "buf"} :
           \A i \in 1..Len(v.m) : v.m[i].t = kind
    [] OTHER -> FALSE

\* s is made only of decimal digits
AllDigits(s) ==
  /\ Len(s) > 0
  /\ \A i \in 1..Len(s) :
       s[i] \in {"0", "1", "2", "3", "4", "5", "6", "7", "8", "9"}

\* v holds, at some depth, a string made only of decimal digits
RECURSIVE HoldsDigitString(_)
HoldsDigitString(v) ==
  CASE v.t = "str" -> AllDigits(v.s)
    [] v.t = "arr" -> \E i \in 1..Len(v.e) : HoldsDigitString(v.e[i])
    [] v.t = "obj" -> \E k \in DOMAIN v.f : HoldsDigitString(v.f[k])
    [] v.t = "set" -> \E i \in 1..Len(v.m) : HoldsDigitString(v.m[i])
    [] OTHER -> FALSE

\* v holds, at some depth, an empty Set
RECURSIVE HoldsEmptySet(_)
HoldsEmptySet(v) ==
  CASE v.t = "set" -> Len(v.m) = 0
    [] v.t = "arr" -> \E i \in 1..Len(v.e) : HoldsEmptySet(v.e[i])
    [] v.t = "obj" -> \E k \in DOMAIN v.f : HoldsEmptySet(v.f[k])
    [] OTHER -> FALSE

\* C1: for every native value that holds no digit-only string and no empty
\* Set, toObject(fromObject(v)) is deeply equal to v.
C1_RoundTrip ==
  (/\ cpc = "decoded"
   /\ IsNativeValue(native)
   /\ ~HoldsDigitString(native)
   /\ ~HoldsEmptySet(native))
    => DeepEqual(decoded, native)

\* C3 as stated: a digit-only string encodes to exactly what the number it
\* denotes encodes to, and every other string s encodes to {S: s}.
C3_SameAsNumber ==
  (cpc # "start" /\ native.t = "str") =>
    IF AllDigits(native.s) THEN wire = fromObject(NumberOf(native))
    ELSE wire = Obj1("S", native)

\* C3: a digit-only string s encodes to {N: s}, its text unchanged, which
\* is what the number n it denotes encodes to exactly when s is the decimal
\* text of n; every other string s, the empty one included, encodes to
\* {S: s}.
C3_NumericString ==
  (cpc # "start" /\ native.t = "str") =>
    IF AllDigits(native.s) THEN
      /\ wire = Obj1("N", native)
      /\ (wire = fromObject(NumberOf(native)))
           <=> (NumberToString(NumberOf(native).n) = native.s)
    ELSE wire = Obj1("S", native)

\* a digit-only string with a leading zero has been encoded
C3_Witness ==
  /\ cpc = "encoded"
  /\ native.t = "str"
  /\ AllDigits(native.s)
  /\ Len(native.s) > 1
  /\ native.s[1] = "0"

\* the fields of the map m whose value is not undefined
DefinedFields(m) == {k \in DOMAIN m.f : m.f[k].t # "undef"}

\* w, the encoding of the map m, has an entry for exactly the defined
\* fields of m, and so has the encoding of every map that is a field of m
RECURSIVE OmitsUndefined(_, _)
OmitsUndefined(w, m) ==
  /\ w.t = "obj"
  /\ DOMAIN w.f = DefinedFields(m)
  /\ \A k \in DefinedFields(m) :
       m.f[k].t = "obj" =>
         /\ Has(w.f[k], "M")
         /\ OmitsUndefined(w.f[k].f["M"], m.f[k])

\* C4: the encoding of a map has no entry for a field whose value is
\* undefined, at every nesting depth, and decoding it yields exactly the
\* defined fields.
C4_UndefinedOmitted ==
  (cpc = "decoded" /\ native.t = "obj") =>
    /\ OmitsUndefined(wire, native)
    /\ decoded.t = "obj"
    /\ DOMAIN decoded.f = DefinedFields(native)

\* C7: a list encodes to {L: [...]} with one entry per element, in order:
\* an element that is a map as {M: its encoding}, whatever the first
\* element of the list is, and any other element as its own encoding.
C7_ListEncoding ==
  (cpc # "start" /\ native.t = "arr") =>
    /\ wire.t = "obj"
    /\ DOMAIN wire.f = {"L"}
    /\ wire.f["L"].t = "arr"
    /\ Len(wire.f["L"].e) = Len(native.e)
    /\ \A i \in 1..Len(native.e) :
         wire.f["L"].e[i] =
           IF native.e[i].t = "obj" THEN Obj1("M", fromObject(native.e[i]))
           ELSE fromObject(native.e[i])

\* w is the flat field table of the map m: its keys are field names of m,
\* and every field of m that is itself a map sits under an M tag whose
\* payload is, again, the flat field table of that map
RECURSIVE IsTableOf(_, _)
IsTableOf(w, m) ==
  /\ w.t = "obj"
  /\ DOMAIN w.f \subseteq DOMAIN m.f
  /\ \A k \in DOMAIN m.f :
       m.f[k].t = "obj" =>
         /\ k \in DOMAIN w.f
         /\ w.f[k].t = "obj"
         /\ DOMAIN w.f[k].f = {"M"}
         /\ IsTableOf(w.f[k].f["M"], m.f[k])

\* C8: fromObject of a top-level map is a flat table of its fields with no
\* M wrapper around it, and every map that is the value of a field of
\* another map is encoded as {M: table of its fields}, at every depth.
C8_MapEncoding ==
  (cpc # "start" /\ native.t = "obj") => IsTableOf(wire, native)

\* a map holding a map holding a map has been encoded
C8_Witness ==
  /\ cpc = "encoded"
  /\ native.t = "obj"
  /\ \E k \in DOMAIN native.f :
       /\ native.f[k].t = "obj"
       /\ \E j \in DOMAIN native.f[k].f : native.f[k].f[j].t = "obj"


\* the tag of a Set whose members are all of one kind
SetTag(kind) ==
  CASE kind = "str" -> "SS" [] kind = "num" -> "NS" [] OTHER -> "BS"

\* C9: a non-empty Set whose members are all strings, all numbers or all
\* byte buffers encodes under SS, NS or BS respectively, and decodes back
\* to a Set with the same members.
C9_SetRoundTrip ==
  (/\ cpc = "decoded"
   /\ native.t = "set"
   /\ Len(native.m) > 0
   /\ IsNativeValue(native))
    => /\ wire.t = "obj"
       /\ DOMAIN wire.f = {SetTag(native.m[1].t)}
       /\ decoded.t = "set"
       /\ Range(decoded.m) = Range(native.m)

\* a Set of several numbers has been encoded and decoded
C9_Witness ==
  /\ cpc = "decoded"
  /\ native.t = "set"
  /\ Len(native.m) > 1
  /\ \A i \in 1..Len(native.m) : native.m[i].t = "num"

\* C16: fromObject of an empty Set, or of a Set whose members are not all
\* strings, all numbers or all byte buffers, fails with an error and never
\* returns a wire value.
C16_UnsupportedSet ==
  (/\ cpc # "start"
   /\ native.t = "set"
   /\ (Len(native.m) = 0 \/ ~IsNativeValue(native)))
    => wire.t = "error"

\* w is a wire value: an object with exactly one recognized tag, and so are
\* the fields under its M and the elements under its L
RECURSIVE IsWireValue(_)
IsWireValue(w) ==
  /\ w.t = "obj"
  /\ Cardinality(DOMAIN w.f \cap Tags) = 1
  /\ Has(w, "M") =>
       /\ w.f["M"].t = "obj"
       /\ \A k \in DOMAIN w.f["M"].f : IsWireValue(w.f["M"].f[k])
  /\ Has(w, "L") =>
       /\ w.f["L"].t = "arr"
       /\ \A i \in 1..Len(w.f["L"].e) : IsWireValue(w.f["L"].e[i])

\* C17: toObject of an object that, where a wire value is expected, carries
\* none of the recognized tags or more than one of them is an error and
\* returns no native value.
C17_MalformedWire ==
  (cpc = "decoded wire" /\ ~IsWireValue(wire)) => decoded.t = "error"

\* w is an object whose only key is one recognized tag, and so are the
\* fields of the table under its M and the elements under its L
RECURSIVE HasOneTag(_)
HasOneTag(w) ==
  /\ w.t = "obj"
  /\ Cardinality(DOMAIN w.f) = 1
  /\ DOMAIN w.f \subseteq Tags
  /\ Has(w, "M") =>
       /\ w.f["M"].t = "obj"
       /\ \A k \in DOMAIN w.f["M"].f : HasOneTag(w.f["M"].f[k])
  /\ Has(w, "L") =>
       /\ w.f["L"].t = "arr"
       /\ \A i \in 1..Len(w.f["L"].e) : HasOneTag(w.f["L"].e[i])

\* C24: for every native value, what fromObject emits where a wire value is
\* expected (a field of the top-level table, a field inside an M, an element
\* of an L, or the whole result of a value that is not a map) is an object
\* with exactly one recognized tag: never undefined, never an empty object,
\* never an untagged field table.
C24_OneTag ==
  (cpc = "encoded" /\ IsNativeValue(native) /\ wire.t # "error") =>
    IF native.t = "obj"
    THEN wire.t = "obj" /\ \A k \in DOMAIN wire.f : HasOneTag(wire.f[k])
    ELSE HasOneTag(wire)

\* the decimal text of an integer: digits, with a minus sign before them
\* when it is negative
IsDecimalText(v) ==
  /\ v.t = "str"
  /\ \/ AllDigits(v.s)
     \/ Len(v.s) > 1 /\ v.s[1] = "-" /\ AllDigits(Tail(v.s))

\* in the wire value w, at any depth, every payload of N and every member
\* of NS is a string of decimal text
RECURSIVE NumbersAsText(_)
NumbersAsText(w) ==
  w.t = "obj" =>
    /\ Has(w, "N") => IsDecimalText(w.f["N"])
    /\ Has(w, "NS") =>
         /\ w.f["NS"].t = "arr"
         /\ \A i \in 1..Len(w.f["NS"].e) : IsDecimalText(w.f["NS"].e[i])
    /\ (Has(w, "M") /\ w.f["M"].t = "obj") =>
         \A k \in DOMAIN w.f["M"].f : NumbersAsText(w.f["M"].f[k])
    /\ (Has(w, "L") /\ w.f["L"].t = "arr") =>
         \A i \in 1..Len(w.f["L"].e) : NumbersAsText(w.f["L"].e[i])

\* C25: in every output of fromObject the payload of each N tag and every
\* member of each NS tag is a string holding the decimal text of the number,
\* never a native number.
C25_NumbersAsText ==
  (cpc = "encoded" /\ IsNativeValue(native) /\ wire.t # "error") =>
    IF native.t = "obj"
    THEN \A k \in DOMAIN wire.f : NumbersAsText(wire.f[k])
    ELSE NumbersAsText(wire)

\* v has, at some depth, a map with a field named like a wire tag
RECURSIVE HoldsTagKey(_)
HoldsTagKey(v) ==
  CASE v.t = "arr" -> \E i \in 1..Len(v.e) : HoldsTagKey(v.e[i])
    [] v.t = "obj" ->
         \/ DOMAIN v.f \cap Tags # {}
         \/ \E k \in DOMAIN v.f : HoldsTagKey(v.f[k])
    [] OTHER -> FALSE

\* v is a string, number, boolean or null, or a list or map of such values
RECURSIVE IsPlainValue(_)
IsPlainValue(v) ==
  CASE v.t \in {"str", "num", "bool", "null"} -> TRUE
    [] v.t = "arr" -> \A i \in 1..Len(v.e) : IsPlainValue(v.e[i])
    [] v.t = "obj" -> \A k \in DOMAIN v.f : IsPlainValue(v.f[k])
    [] OTHER -> FALSE

\* C26: toObject of a value that is already native (a scalar, null included,
\* or a list or map of such values, with no field named like a wire tag)
\* raises no error and returns a value deeply equal to its argument, so
\* decoding the result of a decode changes nothing.
C26_DoubleDecode ==
  (cpc = "decoded again" /\ IsPlainValue(decoded) /\ ~HoldsTagKey(decoded)) =>
    /\ again.t # "error"
    /\ DeepEqual(again, decoded)

----------------------------------------------------------------------------
\* Properties of the request builders

\* C2: in a request built by _query or updateOne, a placeholder defined for
\* one clause is never the placeholder of another clause of the same
\* request, in the names table and in the values table alike, so no
\* definition made for one clause is overwritten by another.
C2_ClausesApart ==
  params.cmd # "none" =>
    \A i, j \in 1..Len(params.assigns) :
      (/\ params.assigns[i].tbl = params.assigns[j].tbl
       /\ params.assigns[i].clause # params.assigns[j].clause)
        => params.assigns[i].key # params.assigns[j].key

\* a query with a match, a range and a filter clause has been built
C2_Witness ==
  /\ params.cmd = "Query"
  /\ \A c \in {"match", "range", "filter"}, tbl \in {"names", "values"} :
       \E i \in 1..Len(params.assigns) :
         params.assigns[i].clause = c /\ params.assigns[i].tbl = tbl

\* C5: for a filter of n fields, each with one comparator and one literal,
\* FilterExpression is the n comparisons joined with AND, over n distinct
\* name placeholders and n distinct value placeholders, each bound to its
\* own field name and to the encoding of its own literal.
C5_FilterClause ==
  (/\ call.op = "_query"
   /\ params.cmd = "Query"
   /\ call.filter.t = "oobj"
   /\ Len(call.filter.e) > 0
   /\ \A i \in 1..Len(call.filter.e) : Len(call.filter.e[i].v.e) = 1)
    =>
    LET n == Len(call.filter.e)
        expr == params.FilterExpression
        name(i) == expr[4 * (i - 1) + 1]
        cmp(i) == expr[4 * (i - 1) + 2]
        val(i) == expr[4 * (i - 1) + 3]
    IN /\ Len(expr) = 4 * n - 1
       /\ \A i \in 1..(n - 1) : expr[4 * i] = "AND"
       /\ \A i, j \in 1..n : i # j => (name(i) # name(j) /\ val(i) # val(j))
       /\ \A i \in 1..n :
            /\ name(i) \in DOMAIN params.ExpressionAttributeNames
            /\ params.ExpressionAttributeNames[name(i)] = call.filter.e[i].k
            /\ cmp(i) = call.filter.e[i].v.e[1].k
            /\ val(i) \in DOMAIN params.ExpressionAttributeValues
            /\ params.ExpressionAttributeValues[val(i)]
                 = fromObject(call.filter.e[i].v.e[1].v)

\* C6: the update expression and the placeholder tables of updateOne
\* mention only the fields whose value is not undefined, and a field given
\* as undefined is neither assigned nor erased in the stored item.
C6_SkipsUndefined ==
  (call.op = "updateOne" /\ params.cmd = "UpdateItem") =>
    LET acts == UpdateActions(params.UpdateExpression)
        made == {i \in 1..Len(params.assigns) :
                   params.assigns[i].clause = "update"}
        defined == {call.update.e[i].k : i \in
                      {x \in 1..Len(call.update.e) :
                         call.update.e[x].v.t # "undef"}}
    IN /\ {params.ExpressionAttributeNames[acts[i].path] :
             i \in 1..Len(acts)} = defined
       /\ \A i \in made :
            IF params.assigns[i].tbl = "names"
            THEN params.assigns[i].val \in defined
            ELSE params.assigns[i].val.t # "undef"
       /\ \A i \in 1..Len(call.update.e) :
            call.update.e[i].v.t = "undef" =>
              Get(stored, call.update.e[i].k) = Get(before, call.update.e[i].k)

\* C10: increment sends one request that, for every field f -> d of update,
\* leaves f at its prior number plus d, or at d when f was absent, and by
\* default returns exactly the updated fields with their new values.
C10_Increment ==
  (/\ call.op = "increment"
   /\ Len(call.update.e) > 0
   /\ \A i \in 1..Len(call.update.e) :
        Has(before, call.update.e[i].k)
          => IsNumberValue(before.f[call.update.e[i].k]))
    =>
    LET prior(f) == IF Has(before, f) THEN NumberIn(before.f[f]) ELSE 0
        after == [f \in {call.update.e[i].k : i \in 1..Len(call.update.e)} |->
                    prior(f) + call.update.e[CHOOSE i \in 1..Len(call.update.e) :
                                    call.update.e[i].k = f].v.n]
    IN /\ result.threw = "none"
       /\ \A f \in DOMAIN after : Get(stored, f) = NumberValue(after[f])
       /\ result.value = Obj([f \in DOMAIN after |-> Num(after[f])])

SingleComparison(m) == Len(m.e) = 1 /\ Len(m.e[1].v.e) = 1

\* C15: when the range map of a query or the condition map of an update
\* does not have exactly one field, or the comparator map of that field
\* does not have exactly one entry, the builder fails with an error and
\* builds no request.
C15_ClauseShape ==
  /\ (/\ call.op = "_query"
      /\ call.range.t = "oobj"
      /\ ~SingleComparison(call.range))
       => (params.cmd = "none" /\ result.threw # "none")
  /\ (/\ call.op = "updateOne"
      /\ call.condition.t = "oobj"
      /\ ~SingleComparison(call.condition))
       => (params.cmd = "none" /\ result.threw # "none")

\* the error the store answers a false condition with
ConditionalFailure ==
  "ConditionalCheckFailedException: The conditional request failed"

\* the condition {field: {op: literal}} is true of the item
ConditionTrue(condition, item) ==
  LET c == FirstComparison(condition)
  IN /\ Has(item, c.key)
     /\ Compare(c.comparison, item.f[c.key], fromObject(c.value))

\* C12: updateOne with a condition that is false of the stored item fails
\* with the conditional-write error and leaves the item as it was; with a
\* condition that is true the update is applied.
C12_ConditionalUpdate ==
  (/\ call.op = "updateOne"
   /\ call.condition.t = "oobj"
   /\ SingleComparison(call.condition)
   /\ Len(call.update.e) > 0)
    =>
    IF ConditionTrue(call.condition, before) THEN
      /\ result.threw = "none"
      /\ \A i \in 1..Len(call.update.e) :
           call.update.e[i].v.t # "undef" =>
             Get(stored, call.update.e[i].k) = fromObject(call.update.e[i].v)
    ELSE
      /\ result.threw = ConditionalFailure
      /\ stored = before

\* C13: deleteOne with a condition that is false of the stored item fails
\* with the conditional-write error and leaves the item in the table; with
\* a condition that is true the item is deleted.
C13_ConditionalDelete ==
  (call.op = "deleteOne" /\ call.condition.t = "oobj" /\ before.t = "obj")
    =>
    IF ConditionTrue(call.condition, before) THEN
      /\ result.threw = "none"
      /\ stored = Undef
    ELSE
      /\ result.threw = ConditionalFailure
      /\ stored = before

\* C19: after updateOne succeeds the stored item has every defined field of
\* update at its new value and every other field it had before unchanged;
\* if there was no item, there is one now with the key and the update
\* fields; the call returns undefined by default and the whole decoded item
\* when returnValues is ALL_NEW.
C19_UpdateMerges ==
  (call.op = "updateOne" /\ result.threw = "none") =>
    LET given == {call.update.e[i].k : i \in
                    {x \in 1..Len(call.update.e) :
                       call.update.e[x].v.t # "undef"}}
        valueOf(k) == call.update.e[CHOOSE i \in 1..Len(call.update.e) :
                                      call.update.e[i].k = k].v
        had == IF before.t = "obj" THEN DOMAIN before.f ELSE {}
    IN /\ stored.t = "obj"
       /\ DOMAIN stored.f = had \cup DOMAIN KeyAttrs \cup given
       /\ \A k \in given : stored.f[k] = fromObject(valueOf(k))
       /\ \A k \in had \ given : stored.f[k] = before.f[k]
       /\ \A k \in DOMAIN KeyAttrs \ given :
            stored.f[k] = fromObject(KeyAttrs[k])
       /\ IF call.returnValues = "ALL_NEW" THEN
            /\ result.value.t = "obj"
            /\ DOMAIN result.value.f = DOMAIN stored.f
            /\ fromObject(result.value) = stored
          ELSE result.value = Undef

\* C30: in every request built by _query the KeyConditionExpression is the
\* key-match clause alone, or the key-match clause followed by AND and the
\* range comparison; it never begins with AND.
C30_RangeAfterMatch ==
  (call.op = "_query" /\ params.cmd = "Query") =>
    LET k == params.KeyConditionExpression
        m == <<"#S0", "=", ":val0">>
    IN /\ \/ k = m
          \/ /\ Len(k) = 7
             /\ SubSeq(k, 1, 3) = m
             /\ k[4] = "AND"
             /\ k[5] = "#R"
             /\ k[7] = ":sortKeyVal"
       /\ k[1] # "AND"

----------------------------------------------------------------------------
\* Properties of calls running side by side

\* the calls whose request the store has served
Served == {p \in Procs : procs[p].pc \in {"answered", "done"}}

\* the sum of the deltas of the calls in ps
RECURSIVE DeltaSum(_)
DeltaSum(ps) ==
  IF ps = {} THEN 0
  ELSE LET p == CHOOSE q \in ps : TRUE
       IN procs[p].update.e[1].v.n + DeltaSum(ps \ {p})

\* C11: with any number of increment calls on one field of one item running
\* side by side, in every interleaving the stored value is the initial
\* value plus the deltas of all calls served so far (so, at the end, of all
\* calls), and each call sends the store one additive update and nothing
\* else.
C11_NoLostUpdate ==
  /\ \A p \in Procs :
       procs[p].pc # "idle" =>
         /\ procs[p].req.cmd = "UpdateItem"
         /\ \A i \in 1..Len(UpdateActions(procs[p].req.UpdateExpression)) :
              UpdateActions(procs[p].req.UpdateExpression)[i].kind = "add"
  /\ IF Served = {} THEN stored = before
     ELSE /\ Has(stored, "count")
          /\ IsNumberValue(stored.f["count"])
          /\ NumberIn(stored.f["count"])
               = (IF Has(before, "count") THEN NumberIn(before.f["count"])
                  ELSE 0) + DeltaSum(Served)

\* every call is done, one added 5 and one took 2 from a field that was 1
C11_Witness ==
  /\ \A p \in Procs : procs[p].pc = "done"
  /\ \E p, q \in Procs :
       procs[p].update.e[1].v.n = 5 /\ procs[q].update.e[1].v.n = 0 - 2
  /\ Has(before, "count")
  /\ NumberIn(before.f["count"]) = 1
  /\ NumberIn(stored.f["count"]) = 1 + DeltaSum(Procs)

\* the callers that have encoded, and those that have decoded as well
Encoded == {p \in Procs : procs[p].pc \in {"encoded", "decoded"}}
Decoded == {p \in Procs : procs[p].pc = "decoded"}

\* C21: fromObject and toObject leave their argument, with all that is
\* nested in it, as it was, and return the same result for the same argument
\* whatever calls ran before or in between.
C21_Pure ==
  /\ \A p \in Encoded :
       /\ native = procs[p].given
       /\ \A q \in Encoded :
            procs[q].given = procs[p].given => procs[q].wire = procs[p].wire
  /\ \A p \in Decoded :
       /\ procs[procs[p].from].wire = procs[p].taken
       /\ \A q \in Decoded :
            procs[q].taken = procs[p].taken =>
              procs[q].decoded = procs[p].decoded

\* every caller has encoded a map with an undefined field and a nested map,
\* and one of them has decoded what another one got back
C21_Witness ==
  /\ Decoded = Procs
  /\ native.t = "obj"
  /\ \E k \in DOMAIN native.f : native.f[k].t = "undef"
  /\ \E k \in DOMAIN native.f : native.f[k].t = "obj"
  /\ \E p \in Procs : procs[p].from # p

----------------------------------------------------------------------------
\* Properties of the list and set modes of update

\* the one field of the update of the call, its encoded value, and the
\* fields of the item as the request found and left them
ModeField == call.update.e[1].k
ModeValue == fromObject(call.update.e[1].v)
OtherFieldsKept ==
  /\ DOMAIN stored.f \ {ModeField} = DOMAIN before.f \ {ModeField}
  /\ \A k \in DOMAIN before.f \ {ModeField} : stored.f[k] = before.f[k]

\* the members of the set under field k of item, none when it has no field k
MembersOf(item, k) ==
  IF k \in DOMAIN item.f THEN Range(item.f[k].f["SS"].e) ELSE {}

\* C22: appendToList leaves the field equal to the stored list followed by
\* the given list, in order and with duplicates kept, or to the given list
\* when the field did not exist; the other fields of the item are unchanged.
C22_ListAppend ==
  call.op = "appendToList" =>
    /\ result.threw = "none"
    /\ ModeField \in DOMAIN stored.f
    /\ stored.f[ModeField] =
         Obj1("L", Arr((IF ModeField \in DOMAIN before.f
                        THEN before.f[ModeField].f["L"].e ELSE <<>>)
                       \o ModeValue.f["L"].e))
    /\ OtherFieldsKept

C22_Witness ==
  /\ call.op = "appendToList"
  /\ ModeField \in DOMAIN before.f
  /\ Len(before.f[ModeField].f["L"].e) > 0
  /\ Len(call.update.e[1].v.e) = 2
  /\ Len(stored.f[ModeField].f["L"].e) >= 4

\* C23: addToSet leaves the field with the members of the stored set and of
\* the given set, creating the set when the field is absent; deleteFromSet
\* leaves it with the members of the stored set that are not given, and
\* does nothing, without error, when the field is absent; the other fields
\* are unchanged.
C23_SetModes ==
  /\ call.op = "addToSet" =>
       /\ result.threw = "none"
       /\ ModeField \in DOMAIN stored.f
       /\ MembersOf(stored, ModeField) =
            MembersOf(before, ModeField) \cup Range(ModeValue.f["SS"].e)
       /\ Len(stored.f[ModeField].f["SS"].e) =
            Cardinality(MembersOf(stored, ModeField))
       /\ OtherFieldsKept
  /\ call.op = "deleteFromSet" =>
       /\ result.threw = "none"
       /\ MembersOf(stored, ModeField) =
            MembersOf(before, ModeField) \ Range(ModeValue.f["SS"].e)
       /\ ModeField \notin DOMAIN before.f => stored = before
       /\ OtherFieldsKept

C23_Witness ==
  /\ call.op = "deleteFromSet"
  /\ ModeField \in DOMAIN before.f
  /\ Cardinality(MembersOf(before, ModeField)) = 3
  /\ Cardinality(MembersOf(stored, ModeField)) = 1

----------------------------------------------------------------------------
\* Properties of the paged reads

\* the items of the answered pages, decoded, in the order of the pages
RECURSIVE AllDecoded(_)
AllDecoded(ps) ==
  IF Len(ps) = 0 THEN <<>>
  ELSE AllDecoded(SubSeq(ps, 1, Len(ps) - 1))
       \o [i \in 1..Len(ps[Len(ps)].Items) |->
             toObject(ps[Len(ps)].Items[i])]

\* what the call is to read from the table: the items of user "u" for
\* query and queryPage, every item (or its key) for getAll
Wanted ==
  IF call.op = "getAll"
  THEN {IF Len(call.keysToReturn) = 0 THEN x ELSE KeyOf(x) : x \in table}
  ELSE {x \in table : x.f["secondary_key"] = Obj1("S", Str(<<"u">>))}

\* seq holds the decoded form of every wanted item once, and nothing else
EachOnce(seq) ==
  /\ Len(seq) = Cardinality(Wanted)
  /\ \A x \in Wanted : \E i \in 1..Len(seq) : seq[i] = toObject(x)

\* every request but the first starts from the key the page before ended
\* with, and is sent only when that page has been answered
Chained ==
  /\ Len(pages) > 0 => pages[1].start = Undef
  /\ \A i \in 2..Len(pages) :
       /\ pages[i - 1].answered
       /\ pages[i - 1].LastEvaluatedKey.t # "undef"
       /\ pages[i].start = pages[i - 1].LastEvaluatedKey

C27_Loop ==
  call.op \in {"query", "getAll"} =>
    /\ Chained
    /\ loop.pc # "done" => result = NoResult
    /\ loop.pc = "done" =>
         /\ result.threw = "none"
         /\ pages[Len(pages)].LastEvaluatedKey.t = "undef"
         /\ result.value = Arr(AllDecoded(pages))
         /\ EachOnce(result.value.e)

C27_Running == call.op \in {"query", "getAll"} /\ loop.pc # "done"
C27_Returned == call.op \in {"query", "getAll"} /\ loop.pc = "done"

\* C27: in query and getAll the first request has no start key, each later
\* one starts from the LastEvaluatedKey of the page before and is sent after
\* that page arrived, the loop ends with the first page that has no
\* LastEvaluatedKey, the result is the decoded items of the pages in order,
\* each wanted item once, and a call whose store comes to such a page
\* returns.
C27_Pagination == [](C27_Loop) /\ (C27_Running ~> C27_Returned)

C27_Witness ==
  /\ call.op = "query"
  /\ loop.pc = "done"
  /\ Len(pages) >= 3
  /\ Len(result.value.e) >= 3

\* C28: queryPage sends one request, whose start key is the caller's lastKey
\* as it was given, and returns the decoded items of that page with the
\* LastEvaluatedKey of the store as it came; a caller that goes on with each
\* lastKey has seen every wanted item once when lastKey comes back
\* undefined, and not on a page before that.
C28_QueryPage ==
  call.op = "queryPage" =>
    /\ loop.sent <= 1
    /\ loop.pc \in {"wait", "turn", "done"} =>
         /\ loop.sent = 1
         /\ params.cmd = "Query"
         /\ params.ExclusiveStartKey = call.lastKey
         /\ pages[Len(pages)].start = call.lastKey
    /\ Chained
    /\ loop.pc = "done" =>
         /\ result.threw = "none"
         /\ result.value.f["items"] =
              Arr(AllDecoded(<<pages[Len(pages)]>>))
         /\ result.value.f["lastKey"] = pages[Len(pages)].LastEvaluatedKey
         /\ loop.seen = AllDecoded(pages)
         /\ result.value.f["lastKey"].t = "undef" => EachOnce(loop.seen)

C28_Witness ==
  /\ call.op = "queryPage"
  /\ loop.pc = "done"
  /\ Len(pages) >= 3
  /\ result.value.f["lastKey"].t = "undef"
  /\ Len(loop.seen) >= 3

----------------------------------------------------------------------------
\* Properties of the methods that work on many items

\* the answers handed back to the caller name the request as unprocessed
ReportedIn(value, request) ==
  /\ value.t = "arr"
  /\ \E b \in 1..Len(value.e) :
       LET u == Get(value.e[b], "UnprocessedItems")
       IN /\ Has(u, TableName)
          /\ \E j \in 1..Len(u.f[TableName].e) :
               u.f[TableName].e[j] = request

\* C18: when the store leaves requests of a batch write unprocessed, putMany
\* and deleteAll do not complete successfully unless each such item was
\* written (deleted) after all or is reported to the caller.
C18_BatchPartial ==
  /\ (call.op = "putMany" /\ result.threw = "none") =>
       \A i \in 1..Len(call.items) :
         \/ fromObject(call.items[i]) \in table
         \/ ReportedIn(result.value,
                       Obj1("PutRequest",
                            Obj1("Item", fromObject(call.items[i]))))
  /\ (call.op = "deleteAll" /\ result.threw = "none") =>
       \A i \in 1..Len(call.items) :
         \/ \A x \in table : KeyOf(x) # fromObject(call.items[i])
         \/ ReportedIn(result.value,
                       Obj1("DeleteRequest",
                            Obj1("Key", fromObject(call.items[i]))))

\* C20: when matches names a key more than once, the request of getMany
\* lists each distinct key once and the result holds each stored item whose
\* key was asked for exactly once.
C20_GetManyDuplicates ==
  call.op = "getMany" =>
    LET asked == {fromObject(call.matches[i]) : i \in 1..Len(call.matches)}
        found == {x \in table : KeyOf(x) \in asked}
    IN /\ \A i, j \in 1..Len(params.Keys) :
            i # j => params.Keys[i] # params.Keys[j]
       /\ Range(params.Keys) = asked
       /\ result.threw = "none"
       /\ result.value.t = "arr"
       /\ Len(result.value.e) = Cardinality(found)
       /\ \A x \in found :
            \E i \in 1..Len(result.value.e) : result.value.e[i] = toObject(x)

\* the requests of all the commands sent, in the order of the commands
AllRequests == Flat([b \in 1..Len(params) |-> params[b].RequestItems])

\* C29: for n items putMany, and deleteAll for the n keys it scanned, sends
\* n/25 rounded up batch write requests of 1 to 25 items each, which hold
\* every item once, in the order of the items; for no items, no request.
C29_Chunking ==
  call.op \in {"putMany", "deleteAll"} =>
    LET n == Len(call.items)
        kind == IF call.op = "putMany" THEN "PutRequest" ELSE "DeleteRequest"
        slot == IF call.op = "putMany" THEN "Item" ELSE "Key"
    IN /\ Len(params) = (n + 24) \div 25
       /\ \A b \in 1..Len(params) :
            /\ params[b].cmd = "BatchWriteItem"
            /\ Len(params[b].RequestItems) \in 1..25
       /\ AllRequests =
            [i \in 1..n |-> Obj1(kind, Obj1(slot, fromObject(call.items[i])))]
       /\ n = 0 => params = <<>>

C29_Witness ==
  /\ call.op = "deleteAll"
  /\ Len(call.items) = 26
  /\ Len(params) = 2
  /\ Len(params[1].RequestItems) = 25
  /\ Len(params[2].RequestItems) = 1

====
